---- MODULE Spec2Model ----
(***************************************************************************)
(* Authentication and session-security subsystem of lawyerup_secured:      *)
(* brute-force lockout, TOTP multi-factor authentication with one-time     *)
(* recovery codes, password policy (complexity, history, expiry) and the   *)
(* login flow that composes them.                                          *)
(*                                                                         *)
(* One account is modelled.  `db` is its stored document; every handler    *)
(* works on an in-memory copy (a Mongoose document) that it loads, changes *)
(* and saves.  save() writes the modified paths only; a save that modifies *)
(* an array path (mfaRecoveryCodes, passwordHistory) is sent with the      *)
(* loaded version key __v in its filter and increments __v, so it throws   *)
(* VersionError when another save changed an array in the meantime (the    *)
(* schema keeps Mongoose's default versionKey).                            *)
(*                                                                         *)
(* Access control is modelled over `users` (role and status of an admin,  *)
(* a user and a lawyer), the secrets of `env` and tokens as requests       *)
(* present them: the auth and adminAuth middleware, an admin-only route    *)
(* and the token checks of mfa/verify.                                     *)
(*                                                                         *)
(* Time is counted in units of 15 minutes.  Random values (TOTP secrets,   *)
(* recovery codes) are modelled as fresh, pairwise distinct values.        *)
(***************************************************************************)
EXTENDS Integers, Sequences, FiniteSets, TLC

VARIABLES
    db,         \* the stored user document
    now,        \* the clock, Date.now()
    mfaTok,     \* the newest MFA challenge token: "none", "live" or "expired"
    nextSecret, \* the next fresh TOTP secret speakeasy.generateSecret returns
    reqs,       \* the requests in flight: request -> its position and copy of the document
    res,        \* the request and response of the handler that completed last
    streak,     \* back-to-back login requests with a wrong password
    redeemed,   \* recovery codes that mfa/verify has accepted
    fails,      \* failed logins that concurrent login requests have registered
    pwd,        \* the argument of validatePassword
    vres,       \* the value validatePassword returned
    env,        \* process.env: the values of JWT_SECRET and MFA_JWT_SECRET
    users,      \* role and status of every stored user
    req,        \* what the middleware made of the last request: req.user, the handler reached
    jar         \* the access-token cookie the client holds: Null or the token last set

vars == <<db, now, mfaTok, nextSecret, reqs, res, streak, redeemed, fails, pwd, vres, env, users, req,
          jar>>

----------------------------------------------------------------------------
(* Bounds of the model *)

MaxNow == 4
InitExpiry == 2
MaxSecrets == 2
MaxTried == 2
MaxChanges == 7
MaxPrefix == 4
MaxUsers == 5

(* Program constants *)

MAX_ATTEMPTS == 5
LOCK_MINUTES == 30
RECOVERY_CODE_COUNT == 8
TOTP_WINDOW == 2
PASSWORD_MIN_LENGTH == 8
PASSWORD_MAX_LENGTH == 128
PASSWORD_HISTORY_COUNT == 5
PASSWORD_EXPIRY_DAYS == 90

(* the durations in units of 15 minutes *)
LOCK_UNITS == LOCK_MINUTES \div 15
PASSWORD_EXPIRY_UNITS == PASSWORD_EXPIRY_DAYS * 24 * 4

----------------------------------------------------------------------------
(* Values *)

Null == <<>>
Some(x) == <<x>>

Abs(n) == IF n < 0 THEN 0 - n ELSE n

Repeat(c, n) == [i \in 1..n |-> c]

Range(s) == {s[i] : i \in 1..Len(s)}

(* bcrypt: hash(p) matches p and nothing else *)
bcryptHash(p) == <<"bcrypt", p>>
bcryptCompare(p, h) == h = bcryptHash(p)

(* crypto.createHash('sha256').update(c).digest('hex') *)
sha256(c) == <<"sha256", c>>

(* A recovery code as typed: the code generated as number idx by the        *)
(* confirmation of secret gen, in upper case (as issued) or in lower case.  *)
toUpperCase(c) == [c EXCEPT !.upper = TRUE]

DigitChars == <<"0", "1", "2", "3", "4", "5", "6", "7", "8", "9">>

(* The plaintext passwords of the model: Passw0rd!0, Passw0rd!1, ... *)
Pw(i) == <<"P", "a", "s", "s", "w", "0", "r", "d", "!">> \o <<DigitChars[i]>>

(* the requests that may be in progress at once *)
Requests == {1, 2}

KnownEmail == "user@example.com"
UnknownEmail == "nobody@example.com"

----------------------------------------------------------------------------
(* The Mongoose document *)

ArrayPaths == {"passwordHistory", "mfaRecoveryCodes"}

(* findOne / findById: a copy of the stored document with no modified path *)
Load(store) == [store EXCEPT !.dirty = {}]

(* doc.path = val: the path is marked modified when the value changes *)
Set(doc, path, val) ==
    IF doc[path] = val THEN doc
    ELSE [doc EXCEPT ![path] = val, !.dirty = @ \cup {path}]

(* mutant: save() without the version check *)
SaveUnversioned(store, doc) ==
    [ok |-> TRUE,
     store |-> [f \in DOMAIN store |->
                   IF f \in doc.dirty THEN doc[f]
                   ELSE IF f = "v" /\ doc.dirty \cap ArrayPaths # {} THEN store.v + 1
                   ELSE store[f]]]

(* doc.save(): ok = FALSE is VersionError *)
Save(store, doc) ==
    IF doc.dirty \cap ArrayPaths # {} /\ store.v # doc.v
    THEN [ok |-> FALSE, store |-> store]
    ELSE [ok |-> TRUE,
          store |-> [f \in DOMAIN store |->
                        IF f \in doc.dirty THEN doc[f]
                        ELSE IF f = "v" /\ doc.dirty \cap ArrayPaths # {} THEN store.v + 1
                        ELSE store[f]]]

----------------------------------------------------------------------------
(* Brute-force protection (User model) *)

isLocked(u, t) == u.lockUntil # Null /\ u.lockUntil[1] > t

(* mutant: an expired lock is cleared but the counter is kept *)
isLockedEffectKeepsCount(u, t) ==
    IF u.lockUntil # Null /\ u.lockUntil[1] <= t
    THEN Set(u, "lockUntil", Null)
    ELSE u

(* the document after isLocked(): an expired lock is cleared in memory *)
isLockedEffect(u, t) ==
    IF u.lockUntil # Null /\ u.lockUntil[1] <= t
    THEN Set(Set(u, "lockUntil", Null), "failedLoginAttempts", 0)
    ELSE u

(* mutant: locks only when the counter exceeds maxAttempts *)
registerFailedLoginLate(u, t, maxAttempts, lockUnits) ==
    LET u1 == isLockedEffect(u, t)
        u2 == Set(u1, "failedLoginAttempts", u1.failedLoginAttempts + 1)
    IN  IF u2.failedLoginAttempts > maxAttempts /\ u2.lockUntil = Null
        THEN Set(u2, "lockUntil", Some(t + lockUnits))
        ELSE u2

(* the document registerFailedLogin saves *)
registerFailedLogin(u, t, maxAttempts, lockUnits) ==
    LET u1 == isLockedEffect(u, t)
        u2 == Set(u1, "failedLoginAttempts", u1.failedLoginAttempts + 1)
    IN  IF u2.failedLoginAttempts >= maxAttempts /\ u2.lockUntil = Null
        THEN Set(u2, "lockUntil", Some(t + lockUnits))
        ELSE u2

(* the document resetLoginAttempts saves *)
resetLoginAttempts(u) ==
    Set(Set(u, "failedLoginAttempts", 0), "lockUntil", Null)

(* mutant: not yet expired at the instant of expiry *)
isPasswordExpiredStrict(u, t) ==
    IF u.passwordExpiresAt = Null THEN FALSE
    ELSE u.passwordExpiresAt[1] < t

isPasswordExpired(u, t) ==
    IF u.passwordExpiresAt = Null THEN FALSE
    ELSE u.passwordExpiresAt[1] <= t

----------------------------------------------------------------------------
(* Responses *)

(* a response: status, whether the session cookie is set, the names of the  *)
(* fields of the JSON body, and of their values the user payload and the   *)
(* recovery codes                                                          *)
Resp(status, cookie, body) ==
    [status |-> status, cookie |-> cookie, body |-> body, user |-> Null, recoveryCodes |-> <<>>]

(* the credential paths of the schema that are not arrays, and those of    *)
(* them declared select: false                                             *)
ScalarPaths ==
    {"password", "passwordChangedAt", "passwordExpiresAt", "mfaEnabled", "mfaSecret",
     "mfaTempSecret", "failedLoginAttempts", "lockUntil"}

SelectFalse == {"password", "mfaSecret", "mfaTempSecret"}

(* res.json({ user }) of a document loaded with .select('+...'): the paths   *)
(* the query selected, with their values                                   *)
toJSON(doc, plus) == [f \in (ScalarPaths \ SelectFalse) \cup plus |-> doc[f]]

(* a payload built field by field from id, fullName, email, role, plan and *)
(* contactNumber: none of the credential paths                             *)
safeUserPayload == [f \in {} |-> Null]

WithUser(r, u) == [r EXCEPT !.user = Some(u)]
WithCodes(r, codes) == [r EXCEPT !.recoveryCodes = codes]

NoInput == [email |-> "", pw |-> <<>>, token |-> "", code |-> Null,
            recoveryCode |-> Null, newPw |-> <<>>, secret |-> 0]

Done(m, r) == [m EXCEPT !.pc = "done", !.out = r]

(* err: a read or write of the store threw in this request; log: the audit *)
(* entries written for it; auditOk: AuditLog.create succeeds for it          *)
NewRequest(op, inp) ==
    [op |-> op, pc |-> "start", inp |-> inp, doc |-> Null, out |-> Null, err |-> FALSE,
     log |-> <<>>, auditOk |-> TRUE]

Idle ==
    [op |-> "none", pc |-> "idle", inp |-> NoInput, doc |-> Null, out |-> Null, err |-> FALSE,
     log |-> <<>>, auditOk |-> TRUE]

(* the positions at which the next thing a handler does is a read or a     *)
(* write of the user store: login's findOne, save and findById, and        *)
(* mfa/verify's findById and the save that removes a recovery code         *)
AtStoreOp(m) ==
    \/ m.op = "login" /\ m.pc \in {"start", "matched", "mismatched", "reload"}
    \/ m.op = "mfaVerify" /\ m.pc = "start"
    \/ m.op = "mfaVerify" /\ m.pc = "loaded" /\ m.inp.code = Null

(* a catch block that carries on as if the user were authenticated *)
catchProceeds(m) ==
    [Done(m, WithUser(Resp(200, TRUE, {"user"}), safeUserPayload)) EXCEPT !.err = TRUE]

(* the handlers' catch blocks: the thrown error ends the request with 500 *)
catch(m) == [Done(m, Resp(500, FALSE, {"message:error"})) EXCEPT !.err = TRUE]

(* mutant: a failed audit write is thrown to the caller *)
logAuditEventThrows(m, action) ==
    IF m.auditOk THEN [m EXCEPT !.log = Append(@, action)] ELSE catch(m)

(* logAuditEvent: AuditLog.create inside try/catch; a failed write is      *)
(* reported on the console and nothing is thrown                           *)
logAuditEvent(m, action) ==
    IF m.auditOk THEN [m EXCEPT !.log = Append(@, action)] ELSE m

(* the response after awaited calls: a throw in one of them has already    *)
(* taken the request to its catch block                                    *)
Reply(m, r) == IF m.err THEN m ELSE Done(m, r)

----------------------------------------------------------------------------
(* login: each step takes the store, the request and the time and gives    *)
(* the store and the request after it.                                      *)

(* User.findOne({ email }).select('+password') *)
(* an unknown email answered with a message of its own *)
LoginLoadNotFound(store, m) ==
    IF m.inp.email # KnownEmail
    THEN [db |-> store, m |-> Done(m, Resp(404, FALSE, {"message:notfound"}))]
    ELSE [db |-> store, m |-> [m EXCEPT !.pc = "loaded", !.doc = Load(store)]]

LoginLoad(store, m) ==
    IF m.inp.email # KnownEmail
    THEN [db |-> store,
          m |-> Reply(logAuditEvent(m, "LOGIN_FAILED"), Resp(401, FALSE, {"message:invalid"}))]
    ELSE [db |-> store, m |-> [m EXCEPT !.pc = "loaded", !.doc = Load(store)]]

(* user.isLocked(), then bcrypt.compare *)
LoginCheck(store, m, t) ==
    IF isLocked(m.doc, t)
    THEN [db |-> store,
          m |-> Reply(logAuditEvent(m, "ACCOUNT_LOCKED"),
                      Resp(423, FALSE, {"message:locked", "lockUntil", "retryAfter"}))]
    ELSE [db |-> store,
          m |-> [m EXCEPT !.doc = isLockedEffect(m.doc, t),
                          !.pc = IF bcryptCompare(m.inp.pw, m.doc.password)
                                 THEN "matched" ELSE "mismatched"]]

(* user.registerFailedLogin(5, 30) or user.resetLoginAttempts() *)
LoginWrite(store, m, t) ==
    LET doc == IF m.pc = "mismatched"
               THEN registerFailedLogin(m.doc, t, MAX_ATTEMPTS, LOCK_UNITS)
               ELSE resetLoginAttempts(m.doc)
        sv == Save(store, doc)
    IN  IF ~sv.ok
        THEN [db |-> store, m |-> Done(m, Resp(500, FALSE, {"message:error"}))]
        ELSE [db |-> sv.store,
              m |-> [m EXCEPT !.doc = [doc EXCEPT !.dirty = {}, !.v = sv.store.v],
                              !.pc = IF m.pc = "mismatched" THEN "reload" ELSE "respond"]]

(* mutant: the session is issued without the MFA challenge *)
LoginFinishNoMfa(store, m, t) ==
    IF m.pc = "reload"
    THEN IF isLocked(Load(store), t)
         THEN [db |-> store,
               m |-> Done(m, Resp(423, FALSE, {"message:locked", "lockUntil", "retryAfter"}))]
         ELSE [db |-> store, m |-> Done(m, Resp(401, FALSE, {"message:invalid"}))]
    ELSE IF isPasswordExpired(m.doc, t)
         THEN [db |-> store,
               m |-> Done(m, Resp(403, FALSE,
                          {"message:expired", "passwordExpired", "requiresPasswordChange"}))]
         ELSE [db |-> store,
               m |-> Done(m, Resp(200, TRUE, {"user", "passwordExpiresAt"}))]

(* after a failure: reload and report the lock; after a success: expiry,   *)
(* then the MFA challenge or the session                                   *)
LoginFinish(store, m, t) ==
    IF m.pc = "reload"
    THEN LET failed == logAuditEvent(m, "LOGIN_FAILED")
         IN  IF isLocked(Load(store), t)
             THEN [db |-> store,
                   m |-> Reply(logAuditEvent(failed, "ACCOUNT_LOCKED"),
                               Resp(423, FALSE, {"message:locked", "lockUntil", "retryAfter"}))]
             ELSE [db |-> store, m |-> Reply(failed, Resp(401, FALSE, {"message:invalid"}))]
    ELSE LET ok == logAuditEvent(m, "LOGIN_SUCCESS")
         IN  IF isPasswordExpired(m.doc, t)
             THEN [db |-> store,
                   m |-> Reply(ok, Resp(403, FALSE,
                              {"message:expired", "passwordExpired", "requiresPasswordChange"}))]
             ELSE IF m.doc.mfaEnabled
                  THEN [db |-> store,
                        m |-> Reply(ok, Resp(200, FALSE,
                                   {"mfaRequired", "mfaToken", "userId", "email", "passwordExpiresAt"}))]
                  ELSE [db |-> store,
                        m |-> Reply(ok, WithUser(Resp(200, TRUE, {"user", "passwordExpiresAt"}),
                                                 toJSON(m.doc, {"password"})))]

LoginStep(store, m, t) ==
    CASE m.pc = "start" -> LoginLoad(store, m)
      [] m.pc = "loaded" -> LoginCheck(store, m, t)
      [] m.pc \in {"matched", "mismatched"} -> LoginWrite(store, m, t)
      [] m.pc \in {"reload", "respond"} -> LoginFinish(store, m, t)
      [] OTHER -> [db |-> store, m |-> m]

(* login run to completion with no other request in between *)
LoginRun(store, m, t) ==
    LET w1 == LoginStep(store, m, t)
        w2 == LoginStep(w1.db, w1.m, t)
        w3 == LoginStep(w2.db, w2.m, t)
    IN  LoginStep(w3.db, w3.m, t)

(* loginAdmin: findOne({ email, role: 'admin' }), bcrypt.compare, session. *)
(* The modelled account is user 1 of users.                                *)
loginAdmin(store, us, m) ==
    IF m.inp.email # KnownEmail \/ us[1].role # "admin"
    THEN Done(m, Resp(404, FALSE, {"message:adminnotfound"}))
    ELSE IF ~bcryptCompare(m.inp.pw, Load(store).password)
    THEN Done(m, Resp(401, FALSE, {"message:password"}))
    ELSE Done(m, WithUser(Resp(200, TRUE, {"user"}), toJSON(Load(store), {"password"})))

----------------------------------------------------------------------------
(* MFA *)

(* a verification that looks one time-step less far *)
totpVerifyNarrow(secret, code, window) ==
    /\ secret # Null
    /\ code.secret = secret[1]
    /\ Abs(code.offset) <= window - 1

(* speakeasy.totp.verify({ secret, token, window }): the code is the one    *)
(* generated from code.secret, code.offset time-steps away from the server *)
totpVerify(secret, code, window) ==
    /\ secret # Null
    /\ code.secret = secret[1]
    /\ Abs(code.offset) <= window

(* the plaintext recovery codes mfa/confirm generates for a secret *)
(* one code fewer than the handler generates *)
GeneratedCodesShort(secret) ==
    [i \in 1..(RECOVERY_CODE_COUNT - 1) |-> [gen |-> secret, idx |-> i, upper |-> TRUE]]

GeneratedCodes(secret) ==
    [i \in 1..RECOVERY_CODE_COUNT |-> [gen |-> secret, idx |-> i, upper |-> TRUE]]

HashAll(codes) == [i \in 1..Len(codes) |-> sha256(codes[i])]

(* Array.findIndex: 0 stands for -1 *)
findIndex(hashes, h) ==
    IF \E i \in 1..Len(hashes) : hashes[i] = h
    THEN CHOOSE i \in 1..Len(hashes) : hashes[i] = h /\ \A j \in 1..(i - 1) : hashes[j] # h
    ELSE 0

(* mutant: nothing is removed *)
spliceNothing(s, i) == s

(* Array.splice(i, 1) *)
splice(s, i) == SubSeq(s, 1, i - 1) \o SubSeq(s, i + 1, Len(s))

(* mutant: the secret is generated whether or not MFA is on *)
MfaSetupLoadAny(store, m) ==
    [db |-> store, m |-> [m EXCEPT !.pc = "loaded", !.doc = Load(store)]]

(* mfa/setup *)
MfaSetupLoad(store, m) ==
    IF Load(store).mfaEnabled
    THEN [db |-> store, m |-> Done(m, Resp(400, FALSE, {"message:already"}))]
    ELSE [db |-> store, m |-> [m EXCEPT !.pc = "loaded", !.doc = Load(store)]]

MfaSetupSave(store, m) ==
    LET doc == Set(m.doc, "mfaTempSecret", Some(m.inp.secret))
        sv == Save(store, doc)
    IN  IF ~sv.ok
        THEN [db |-> store, m |-> Done(m, Resp(500, FALSE, {"message:error"}))]
        ELSE [db |-> sv.store,
              m |-> Reply(logAuditEvent(m, "MFA_SETUP"),
                          Resp(200, FALSE, {"otpauth_url", "qrCodeDataUrl", "secret"}))]

MfaSetupStep(store, m, t) ==
    CASE m.pc = "start" -> MfaSetupLoad(store, m)
      [] m.pc = "loaded" -> MfaSetupSave(store, m)
      [] OTHER -> [db |-> store, m |-> m]

MfaSetupRun(store, m, t) ==
    LET w1 == MfaSetupStep(store, m, t) IN MfaSetupStep(w1.db, w1.m, t)

(* mfa/confirm *)
MfaConfirmLoad(store, m) ==
    IF m.inp.code = Null
    THEN [db |-> store, m |-> Done(m, Resp(400, FALSE, {"message:required"}))]
    ELSE IF Load(store).mfaTempSecret = Null
         THEN [db |-> store, m |-> Done(m, Resp(400, FALSE, {"message:nopending"}))]
         ELSE [db |-> store, m |-> [m EXCEPT !.pc = "loaded", !.doc = Load(store)]]

(* the save step of mfa/confirm without the TOTP verification *)
MfaConfirmSaveUnverified(store, m) ==
    LET codes == GeneratedCodes(m.doc.mfaTempSecret[1])
        d1 == Set(m.doc, "mfaEnabled", TRUE)
        d2 == Set(d1, "mfaSecret", m.doc.mfaTempSecret)
        d3 == Set(d2, "mfaTempSecret", Null)
        d4 == Set(d3, "mfaRecoveryCodes", HashAll(codes))
        sv == Save(store, d4)
    IN  [db |-> sv.store,
         m |-> Done(m, WithCodes(Resp(200, FALSE, {"message", "recoveryCodes", "warning"}), codes))]

MfaConfirmSave(store, m) ==
    IF ~totpVerify(m.doc.mfaTempSecret, m.inp.code[1], TOTP_WINDOW)
    THEN [db |-> store, m |-> Done(m, Resp(400, FALSE, {"message:invalid"}))]
    ELSE LET codes == GeneratedCodes(m.doc.mfaTempSecret[1])
             d1 == Set(m.doc, "mfaEnabled", TRUE)
             d2 == Set(d1, "mfaSecret", m.doc.mfaTempSecret)
             d3 == Set(d2, "mfaTempSecret", Null)
             d4 == Set(d3, "mfaRecoveryCodes", HashAll(codes))
             sv == Save(store, d4)
         IN  IF ~sv.ok
             THEN [db |-> store, m |-> Done(m, Resp(500, FALSE, {"message:error"}))]
             ELSE [db |-> sv.store,
                   m |-> Reply(logAuditEvent(m, "MFA_SETUP"),
                               WithCodes(Resp(200, FALSE, {"message", "recoveryCodes", "warning"}),
                                         codes))]

MfaConfirmStep(store, m, t) ==
    CASE m.pc = "start" -> MfaConfirmLoad(store, m)
      [] m.pc = "loaded" -> MfaConfirmSave(store, m)
      [] OTHER -> [db |-> store, m |-> m]

MfaConfirmRun(store, m, t) ==
    LET w1 == MfaConfirmStep(store, m, t) IN MfaConfirmStep(w1.db, w1.m, t)

(* mfa/verify: the token is checked, then the user is loaded *)
MfaVerifyLoad(store, m, tok) ==
    IF m.inp.token = ""
    THEN [db |-> store, m |-> Done(m, Resp(400, FALSE, {"message:required"}))]
    ELSE IF m.inp.code = Null /\ m.inp.recoveryCode = Null
    THEN [db |-> store, m |-> Done(m, Resp(400, FALSE, {"message:required"}))]
    ELSE IF m.inp.token # "mfa"
    THEN [db |-> store, m |-> Done(m, Resp(401, FALSE, {"message:badtoken"}))]
    ELSE IF tok # "live"
    THEN [db |-> store, m |-> Done(m, Resp(401, FALSE, {"message:tokenexpired"}))]
    ELSE IF ~Load(store).mfaEnabled
    THEN [db |-> store, m |-> Done(m, Resp(400, FALSE, {"message:notenabled"}))]
    ELSE [db |-> store, m |-> [m EXCEPT !.pc = "loaded", !.doc = Load(store)]]

(* the code or the recovery code is verified; a matched recovery code is   *)
(* removed and the document saved; then the session is issued              *)
MfaVerifyDecide(store, m) ==
    IF m.inp.code # Null
    THEN IF totpVerify(m.doc.mfaSecret, m.inp.code[1], TOTP_WINDOW)
         THEN [db |-> store,
               m |-> Reply(logAuditEvent(m, "MFA_VERIFY_SUCCESS"),
                           WithUser(Resp(200, TRUE, {"user"}), safeUserPayload))]
         ELSE [db |-> store,
               m |-> Reply(logAuditEvent(m, "MFA_VERIFY_FAILED"),
                           Resp(401, FALSE, {"message:invalid"}))]
    ELSE LET h == sha256(toUpperCase(m.inp.recoveryCode[1]))
             codeIndex == findIndex(m.doc.mfaRecoveryCodes, h)
             doc == Set(m.doc, "mfaRecoveryCodes", splice(m.doc.mfaRecoveryCodes, codeIndex))
             sv == Save(store, doc)
         IN  IF codeIndex = 0
             THEN [db |-> store,
                   m |-> Reply(logAuditEvent(m, "MFA_VERIFY_FAILED"),
                               Resp(401, FALSE, {"message:invalid"}))]
             ELSE IF ~sv.ok
             THEN [db |-> store, m |-> Done(m, Resp(500, FALSE, {"message:error"}))]
             ELSE [db |-> sv.store,
                   m |-> Reply(logAuditEvent(m, "MFA_VERIFY_SUCCESS"),
                               WithUser(Resp(200, TRUE, {"user"}), safeUserPayload))]

MfaVerifyStep(store, m, tok) ==
    CASE m.pc = "start" -> MfaVerifyLoad(store, m, tok)
      [] m.pc = "loaded" -> MfaVerifyDecide(store, m)
      [] OTHER -> [db |-> store, m |-> m]

MfaVerifyRun(store, m, tok) ==
    LET w1 == MfaVerifyStep(store, m, tok) IN MfaVerifyStep(w1.db, w1.m, tok)

(* mfa/disable *)
MfaDisableLoad(store, m) ==
    IF m.inp.pw = <<>>
    THEN [db |-> store, m |-> Done(m, Resp(400, FALSE, {"message:required"}))]
    ELSE IF m.inp.code = Null /\ m.inp.recoveryCode = Null
    THEN [db |-> store, m |-> Done(m, Resp(400, FALSE, {"message:required"}))]
    ELSE IF ~Load(store).mfaEnabled
    THEN [db |-> store, m |-> Done(m, Resp(400, FALSE, {"message:notenabled"}))]
    ELSE [db |-> store, m |-> [m EXCEPT !.pc = "loaded", !.doc = Load(store)]]

(* mutant: any recovery code passes *)
MfaDisableVerifiedLax(doc, inp) ==
    IF inp.code # Null
    THEN totpVerify(doc.mfaSecret, inp.code[1], TOTP_WINDOW)
    ELSE TRUE

MfaDisableVerified(doc, inp) ==
    IF inp.code # Null
    THEN totpVerify(doc.mfaSecret, inp.code[1], TOTP_WINDOW)
    ELSE findIndex(doc.mfaRecoveryCodes, sha256(toUpperCase(inp.recoveryCode[1]))) # 0

(* a disable that leaves mfaSecret in place *)
MfaDisableSaveKeepsSecret(store, m) ==
    IF ~bcryptCompare(m.inp.pw, m.doc.password)
    THEN [db |-> store, m |-> Done(m, Resp(401, FALSE, {"message:password"}))]
    ELSE IF ~MfaDisableVerified(m.doc, m.inp)
    THEN [db |-> store, m |-> Done(m, Resp(401, FALSE, {"message:invalid"}))]
    ELSE LET d1 == Set(m.doc, "mfaEnabled", FALSE)
             d3 == Set(d1, "mfaTempSecret", Null)
             d4 == Set(d3, "mfaRecoveryCodes", <<>>)
             sv == Save(store, d4)
         IN  [db |-> sv.store, m |-> Done(m, Resp(200, FALSE, {"message:disabled"}))]

MfaDisableSave(store, m) ==
    IF ~bcryptCompare(m.inp.pw, m.doc.password)
    THEN [db |-> store, m |-> Done(m, Resp(401, FALSE, {"message:password"}))]
    ELSE IF ~MfaDisableVerified(m.doc, m.inp)
    THEN [db |-> store, m |-> Done(m, Resp(401, FALSE, {"message:invalid"}))]
    ELSE LET d1 == Set(m.doc, "mfaEnabled", FALSE)
             d2 == Set(d1, "mfaSecret", Null)
             d3 == Set(d2, "mfaTempSecret", Null)
             d4 == Set(d3, "mfaRecoveryCodes", <<>>)
             sv == Save(store, d4)
         IN  IF ~sv.ok
             THEN [db |-> store, m |-> Done(m, Resp(500, FALSE, {"message:error"}))]
             ELSE [db |-> sv.store, m |-> Done(m, Resp(200, FALSE, {"message:disabled"}))]

MfaDisableStep(store, m, t) ==
    CASE m.pc = "start" -> MfaDisableLoad(store, m)
      [] m.pc = "loaded" -> MfaDisableSave(store, m)
      [] OTHER -> [db |-> store, m |-> m]

MfaDisableRun(store, m, t) ==
    LET w1 == MfaDisableStep(store, m, t) IN MfaDisableStep(w1.db, w1.m, t)

----------------------------------------------------------------------------
(* Password policy (utils/passwordPolicy.js).  A password is a sequence of  *)
(* one-character strings.                                                  *)

(* the printable ASCII characters in code order, from the space (0x20);     *)
(* "grave" stands for the grave accent (0x60)                              *)
Ascii ==
    <<" ", "!", "\"", "#", "$", "%", "&", "'", "(", ")", "*", "+", ",", "-", ".", "/",
      "0", "1", "2", "3", "4", "5", "6", "7", "8", "9", ":", ";", "<", "=", ">", "?",
      "@", "A", "B", "C", "D", "E", "F", "G", "H", "I", "J", "K", "L", "M", "N", "O",
      "P", "Q", "R", "S", "T", "U", "V", "W", "X", "Y", "Z", "[", "\\", "]", "^", "_",
      "grave", "a", "b", "c", "d", "e", "f", "g", "h", "i", "j", "k", "l", "m", "n", "o",
      "p", "q", "r", "s", "t", "u", "v", "w", "x", "y", "z", "{", "|", "}", "~">>

charCode(c) == CHOOSE i \in DOMAIN Ascii : Ascii[i] = c

(* the characters a regular-expression class range a-b matches *)
CharRange(a, b) == {Ascii[i] : i \in charCode(a)..charCode(b)}

(* the classes [A-Z], [a-z] and [0-9] *)
UpperCase == CharRange("A", "Z")
LowerCase == CharRange("a", "z")
Digits == CharRange("0", "9")

(* PASSWORD_COMPLEXITY.specialChars *)
specialChars ==
    <<"!", "@", "#", "$", "%", "^", "&", "*", "(", ")", "_", "+", "-", "=", "[", "]",
      "{", "}", "|", ";", ":", ",", ".", "<", ">", "?">>

(* the characters that .replace(/[.*+?^${}()|[\]\\]/g, '\\$&') escapes *)
EscapedChars == {".", "*", "+", "?", "^", "$", "{", "}", "(", ")", "|", "[", "]", "\\"}

(* the source text of the class: each escaped character after a backslash *)
RECURSIVE escapeRegExp(_)
escapeRegExp(s) ==
    IF s = <<>> THEN <<>>
    ELSE (IF Head(s) \in EscapedChars THEN <<"\\", Head(s)>> ELSE <<Head(s)>>)
             \o escapeRegExp(Tail(s))

(* the atoms of the source text of a class: a character, escaped or not *)
RECURSIVE ClassAtoms(_)
ClassAtoms(src) ==
    IF src = <<>> THEN <<>>
    ELSE IF Head(src) = "\\" /\ Len(src) >= 2
         THEN <<[ch |-> src[2], esc |-> TRUE]>> \o ClassAtoms(SubSeq(src, 3, Len(src)))
         ELSE <<[ch |-> Head(src), esc |-> FALSE]>> \o ClassAtoms(Tail(src))

(* the characters a class matches: an unescaped dash between two atoms      *)
(* makes a range of them                                                   *)
RECURSIVE ClassChars(_)
ClassChars(atoms) ==
    IF atoms = <<>> THEN {}
    ELSE IF Len(atoms) >= 3 /\ atoms[2].ch = "-" /\ ~atoms[2].esc
         THEN CharRange(atoms[1].ch, atoms[3].ch) \cup ClassChars(SubSeq(atoms, 4, Len(atoms)))
         ELSE {atoms[1].ch} \cup ClassChars(Tail(atoms))

(* new RegExp(`[${specialChars.replace(...)}]`) *)
specialCharRegex == ClassChars(ClassAtoms(escapeRegExp(specialChars)))

(* regex.test(password) for a regex that is one character class *)
RegexTest(class, password) == \E i \in 1..Len(password) : password[i] \in class

(* validatePassword: errors in the order they are pushed; the empty        *)
(* password stands for every falsy argument                                *)
validatePassword(password) ==
    LET tooShort == IF password = <<>> \/ Len(password) < PASSWORD_MIN_LENGTH
                    THEN <<"TOO_SHORT">> ELSE <<>>
        tooLong == IF password # <<>> /\ Len(password) > PASSWORD_MAX_LENGTH
                   THEN <<"TOO_LONG">> ELSE <<>>
        upper == IF password # <<>> /\ ~RegexTest(UpperCase, password)
                 THEN <<"MISSING_UPPERCASE">> ELSE <<>>
        lower == IF password # <<>> /\ ~RegexTest(LowerCase, password)
                 THEN <<"MISSING_LOWERCASE">> ELSE <<>>
        number == IF password # <<>> /\ ~RegexTest(Digits, password)
                  THEN <<"MISSING_NUMBER">> ELSE <<>>
        special == IF password # <<>> /\ ~RegexTest(specialCharRegex, password)
                   THEN <<"MISSING_SPECIAL_CHAR">> ELSE <<>>
        errors == tooShort \o tooLong \o upper \o lower \o number \o special
    IN  [valid |-> Len(errors) = 0, errors |-> errors]

----------------------------------------------------------------------------
(* Password history (User model) and change-password *)

(* a history check that finds nothing *)
isPasswordReusedNever(u, plainPassword) == FALSE

isPasswordReused(u, plainPassword) ==
    \E i \in 1..Len(u.passwordHistory) : bcryptCompare(plainPassword, u.passwordHistory[i])

(* an updatePassword that puts the outgoing hash at the end of the history *)
updatePasswordAppend(u, newHashedPassword, historyCount, expiryUnits, t) ==
    LET pushed == IF u.password # <<>> THEN Append(u.passwordHistory, u.password)
                  ELSE u.passwordHistory
        history == IF Len(pushed) > historyCount
                   THEN SubSeq(pushed, 1, historyCount) ELSE pushed
        u1 == Set(u, "passwordHistory", history)
        u2 == Set(u1, "password", newHashedPassword)
        u3 == Set(u2, "passwordChangedAt", t)
    IN  Set(u3, "passwordExpiresAt",
            IF expiryUnits > 0 THEN Some(t + expiryUnits) ELSE Null)

(* the document updatePassword saves *)
updatePassword(u, newHashedPassword, historyCount, expiryUnits, t) ==
    LET unshifted == IF u.password # <<>> THEN <<u.password>> \o u.passwordHistory
                     ELSE u.passwordHistory
        history == IF Len(unshifted) > historyCount
                   THEN SubSeq(unshifted, 1, historyCount) ELSE unshifted
        u1 == Set(u, "passwordHistory", history)
        u2 == Set(u1, "password", newHashedPassword)
        u3 == Set(u2, "passwordChangedAt", t)
    IN  Set(u3, "passwordExpiresAt",
            IF expiryUnits > 0 THEN Some(t + expiryUnits) ELSE Null)

ChangePasswordLoad(store, m) ==
    IF m.inp.pw = <<>> \/ m.inp.newPw = <<>>
    THEN [db |-> store, m |-> Done(m, Resp(400, FALSE, {"message:required"}))]
    ELSE [db |-> store, m |-> [m EXCEPT !.pc = "loaded", !.doc = Load(store)]]

ChangePasswordSave(store, m, t) ==
    LET doc == updatePassword(m.doc, bcryptHash(m.inp.newPw), PASSWORD_HISTORY_COUNT,
                              PASSWORD_EXPIRY_UNITS, t)
        sv == Save(store, doc)
    IN  IF ~bcryptCompare(m.inp.pw, m.doc.password)
        THEN [db |-> store, m |-> Done(m, Resp(401, FALSE, {"message:current"}))]
        ELSE IF ~validatePassword(m.inp.newPw).valid
        THEN [db |-> store, m |-> Done(m, Resp(400, FALSE, {"message:requirements", "errors"}))]
        ELSE IF bcryptCompare(m.inp.newPw, m.doc.password)
        THEN [db |-> store, m |-> Done(m, Resp(400, FALSE, {"message:same"}))]
        ELSE IF isPasswordReused(m.doc, m.inp.newPw)
        THEN [db |-> store, m |-> Done(m, Resp(400, FALSE, {"message:reused"}))]
        ELSE IF ~sv.ok
        THEN [db |-> store, m |-> Done(m, Resp(500, FALSE, {"message:error"}))]
        ELSE [db |-> sv.store,
              m |-> Reply(logAuditEvent(m, "PASSWORD_CHANGE"),
                          Resp(200, FALSE, {"message:changed", "passwordExpiresAt"}))]

ChangePasswordStep(store, m, t) ==
    CASE m.pc = "start" -> ChangePasswordLoad(store, m)
      [] m.pc = "loaded" -> ChangePasswordSave(store, m, t)
      [] OTHER -> [db |-> store, m |-> m]

ChangePasswordRun(store, m, t) ==
    LET w1 == ChangePasswordStep(store, m, t) IN ChangePasswordStep(w1.db, w1.m, t)

----------------------------------------------------------------------------
(* Tokens, the auth middleware and an admin-only route *)

(* a token as a request presents it: the secret it was signed with, its    *)
(* payload (0 and "" for claims it lacks) and whether its exp has passed   *)
generateToken(id, e) ==
    [key |-> e.JWT_SECRET, id |-> id, sub |-> 0, purpose |-> "", expired |-> FALSE]

generateMfaToken(userId, e) ==
    [key |-> e.MFA_JWT_SECRET, id |-> 0, sub |-> userId, purpose |-> "mfa", expired |-> FALSE]

(* jwt.verify: the signature is checked before the expiry *)
jwtVerify(token, secret) ==
    IF token.key # secret THEN "JsonWebTokenError"
    ELSE IF token.expired THEN "TokenExpiredError"
    ELSE "ok"

NoReq == [user |-> 0, handler |-> "none"]

(* next() with req.user set, and a response that ends the request *)
Pass(u) == [next |-> TRUE, req |-> [user |-> u, handler |-> "none"], out |-> Resp(0, FALSE, {})]

Reject(r) == [next |-> FALSE, req |-> NoReq, out |-> r]

(* a middleware that looks the user up by decoded.sub when decoded.id is   *)
(* missing                                                                 *)
authBySubject(token, e, us) ==
    IF token = Null
    THEN Reject(Resp(401, FALSE, {"message:notoken"}))
    ELSE IF jwtVerify(token[1], e.JWT_SECRET) = "TokenExpiredError"
    THEN Reject(Resp(401, FALSE, {"message:sessionexpired", "sessionExpired"}))
    ELSE IF jwtVerify(token[1], e.JWT_SECRET) = "JsonWebTokenError"
    THEN Reject(Resp(403, FALSE, {"message:invalidtoken"}))
    ELSE IF (token[1].id \notin DOMAIN us) /\ (token[1].sub \notin DOMAIN us)
    THEN Reject(Resp(401, FALSE, {"message:usernotfound"}))
    ELSE Pass(IF token[1].id \in DOMAIN us THEN token[1].id ELSE token[1].sub)

(* auth: the token of the cookie or the Authorization header is verified   *)
(* with JWT_SECRET and the user of decoded.id becomes req.user;            *)
(* findById(undefined) finds nobody                                        *)
auth(token, e, us) ==
    IF token = Null
    THEN Reject(Resp(401, FALSE, {"message:notoken"}))
    ELSE IF jwtVerify(token[1], e.JWT_SECRET) = "TokenExpiredError"
    THEN Reject(Resp(401, FALSE, {"message:sessionexpired", "sessionExpired"}))
    ELSE IF jwtVerify(token[1], e.JWT_SECRET) = "JsonWebTokenError"
    THEN Reject(Resp(403, FALSE, {"message:invalidtoken"}))
    ELSE IF token[1].id \notin DOMAIN us
    THEN Reject(Resp(401, FALSE, {"message:usernotfound"}))
    ELSE Pass(token[1].id)

(* an adminAuth that lets every authenticated user through *)
adminAuthAnyRole(token, e, us) == auth(token, e, us)

(* adminAuth: auth, then the role of req.user *)
adminAuth(token, e, us) ==
    LET a == auth(token, e, us)
    IN  IF ~a.next THEN a
        ELSE IF us[a.req.user].role # "admin"
        THEN Reject(Resp(403, FALSE, {"message:adminsonly"}))
        ELSE a

allowedStatuses == {"verified", "hold", "disable"}

(* updateUserStatus: findByIdAndUpdate(id, { status }) *)
updateUserStatus(us, id, status) ==
    IF status \notin allowedStatuses
    THEN [users |-> us, out |-> Resp(400, FALSE, {"message:invalidstatus"})]
    ELSE IF id \notin DOMAIN us
    THEN [users |-> us, out |-> Resp(404, FALSE, {"message:usernotfound"})]
    ELSE [users |-> [us EXCEPT ![id].status = status],
          out |-> Resp(200, FALSE, {"message:updated", "user"})]

(* the token checks of mfa/verify: Null when the token is accepted, else   *)
(* the response                                                            *)
mfaVerifyToken(token, e) ==
    IF token = Null
    THEN Some(Resp(400, FALSE, {"message:required"}))
    ELSE IF jwtVerify(token[1], e.MFA_JWT_SECRET) = "JsonWebTokenError"
    THEN Some(Resp(401, FALSE, {"message:badtoken"}))
    ELSE IF jwtVerify(token[1], e.MFA_JWT_SECRET) = "TokenExpiredError"
    THEN Some(Resp(401, FALSE, {"message:tokenexpired"}))
    ELSE IF token[1].purpose # "mfa"
    THEN Some(Resp(400, FALSE, {"message:purpose"}))
    ELSE Null

(* the stored users: an admin, a user and a lawyer *)
InitUsers ==
    [u \in 1..3 |-> [role |-> <<"admin", "user", "lawyer">>[u], status |-> "verified",
                     email |-> <<KnownEmail, "client@example.com", "lawyer@example.com">>[u]]]

(* Registration. A body is [email, pw, role, secretKey]; role and secretKey *)
(* are Null when the body does not carry them.                             *)
(* User.create: the schema's enum rejects a role outside it *)
create(us, email, role) ==
    IF role \notin {"user", "lawyer", "admin"}
    THEN [users |-> us, out |-> Resp(500, FALSE, {"message:error"})]
    ELSE [users |-> Append(us, [role |-> role, status |-> "verified", email |-> email]),
          out |-> Resp(201, TRUE, {"user"})]

(* register: role is taken from the body, user when absent *)
register(us, body) ==
    IF ~validatePassword(body.pw).valid
    THEN [users |-> us, out |-> Resp(400, FALSE, {"message:requirements", "errors"})]
    ELSE IF \E i \in DOMAIN us : us[i].email = body.email
    THEN [users |-> us, out |-> Resp(400, FALSE, {"message:exists"})]
    ELSE create(us, body.email, IF body.role = Null THEN "user" ELSE body.role[1])

(* registerAdmin: the secret key is checked first, the role is admin *)
registerAdmin(us, body) ==
    IF \/ body.secretKey = Null
       \/ body.secretKey[1] \notin {"key1234567", "keyMegaAdmin", "admin999", "topSecret666"}
    THEN [users |-> us, out |-> Resp(401, FALSE, {"message:secretkey"})]
    ELSE IF ~validatePassword(body.pw).valid
    THEN [users |-> us, out |-> Resp(400, FALSE, {"message:requirements", "errors"})]
    ELSE IF \E i \in DOMAIN us : us[i].email = body.email
    THEN [users |-> us, out |-> Resp(400, FALSE, {"message:exists"})]
    ELSE create(us, body.email, "admin")

----------------------------------------------------------------------------
(* Initial state: the account as registration leaves it *)

InitDb ==
    [password |-> bcryptHash(Pw(1)),
     passwordHistory |-> <<>>,
     passwordChangedAt |-> 0,
     passwordExpiresAt |-> Null,
     failedLoginAttempts |-> 0,
     lockUntil |-> Null,
     mfaEnabled |-> FALSE,
     mfaSecret |-> Null,
     mfaTempSecret |-> Null,
     mfaRecoveryCodes |-> <<>>,
     v |-> 0,
     dirty |-> {}]

NoRes == [op |-> "none", inp |-> NoInput, out |-> Resp(0, FALSE, {}), n |-> 0]

(* the record of a completed request; n alternates so that every completion *)
(* is a visible step                                                        *)
Completion(op, inp, out) == [op |-> op, inp |-> inp, out |-> out, n |-> 1 - res.n]

InitCommon ==
    /\ now = 0
    /\ mfaTok = "none"
    /\ nextSecret = 1
    /\ reqs = [r \in Requests |-> Idle]
    /\ res = NoRes
    /\ streak = 0
    /\ redeemed = {}
    /\ fails = 0
    /\ pwd = <<>>
    /\ vres = Null
    /\ env = [JWT_SECRET |-> "k1", MFA_JWT_SECRET |-> "k2"]
    /\ users = InitUsers
    /\ req = NoReq
    /\ jar = Null

Init ==
    /\ InitCommon
    /\ \E e \in {Null, Some(InitExpiry)} : db = [InitDb EXCEPT !.passwordExpiresAt = e]

----------------------------------------------------------------------------
(* Request bodies *)

LoginBody(e, p) == [NoInput EXCEPT !.email = e, !.pw = p]

LoginInputs == {LoginBody(e, p) : e \in {KnownEmail, UnknownEmail}, p \in {Pw(1), Pw(2)}}

CorrectLogin == {LoginBody(KnownEmail, Pw(1))}

Totp(s, d) == [secret |-> s, offset |-> d]

Recovery(g, i, u) == [gen |-> g, idx |-> i, upper |-> u]

CodeBody(c) == [code |-> Some(c), recoveryCode |-> Null]

RecoveryBody(r) == [code |-> Null, recoveryCode |-> Some(r)]

(* TOTP codes: of each secret, generated now and one step beyond the        *)
(* window, and one at the edge of the window                                *)
TotpInputs ==
    {Totp(s, d) : s \in 1..MaxSecrets, d \in {0, TOTP_WINDOW + 1}}
    \cup {Totp(1, d) : d \in -(TOTP_WINDOW + 1)..(TOTP_WINDOW + 1)}

(* recovery codes as typed: several of the first enrolment and one of each  *)
(* later one, one in lower case and one never issued                        *)
RecoveryInputs ==
    {Recovery(1, i, TRUE) : i \in 1..MaxTried}
    \cup {Recovery(g, 1, TRUE) : g \in 1..MaxSecrets}
    \cup {Recovery(1, 1, FALSE), Recovery(0, 1, TRUE)}

(* code and recoveryCode of a request body: either, both or none *)
Credentials ==
    {CodeBody(c) : c \in TotpInputs}
    \cup {RecoveryBody(r) : r \in RecoveryInputs}
    \cup {[code |-> Some(Totp(1, TOTP_WINDOW + 1)), recoveryCode |-> Some(Recovery(1, 1, TRUE))],
          [code |-> Null, recoveryCode |-> Null]}

(* the credentials mfa/disable is exercised with *)
DisableCredentials ==
    {CodeBody(Totp(s, 0)) : s \in 1..MaxSecrets}
    \cup {RecoveryBody(Recovery(g, 1, TRUE)) : g \in 0..MaxSecrets}
    \cup {CodeBody(Totp(1, d)) : d \in -(TOTP_WINDOW + 1)..(TOTP_WINDOW + 1)}
    \cup {[code |-> Null, recoveryCode |-> Null]}

(* the credentials the login flow is exercised with *)
FlowCredentials ==
    {CodeBody(Totp(1, 0)), CodeBody(Totp(1, TOTP_WINDOW + 1)), RecoveryBody(Recovery(1, 1, TRUE))}

----------------------------------------------------------------------------
(* Sequential operations: one handler at a time *)

(* streak counts the login requests with a wrong password made back to back *)
(* from a state in which the account was unlocked with a zero counter;     *)
(* StreakOff: no such run is in progress                                   *)
StreakOff == MAX_ATTEMPTS + 1

StreakAfter(inp, after) ==
    IF inp.email # KnownEmail THEN streak
    ELSE IF ~bcryptCompare(inp.pw, db.password)
         THEN (IF streak < MAX_ATTEMPTS THEN streak + 1 ELSE StreakOff)
         ELSE (IF after.failedLoginAttempts = 0 /\ after.lockUntil = Null THEN 0 ELSE StreakOff)

TokAfter(out) == IF "mfaToken" \in out.body THEN "live" ELSE mfaTok

(* setAccessTokenCookie: the client holds the token of user id from then on *)
JarAfter(out, id) == IF out.cookie THEN Some(generateToken(id, env)) ELSE jar

Login(inputs) ==
    \E inp \in inputs :
        LET w == LoginRun(db, NewRequest("login", inp), now)
        IN  /\ db' = w.db
            /\ res' = Completion("login", inp, w.m.out)
            /\ mfaTok' = TokAfter(w.m.out)
            /\ streak' = StreakAfter(inp, w.db)
            /\ jar' = JarAfter(w.m.out, 1)
            /\ UNCHANGED <<now, nextSecret, reqs, redeemed, fails, pwd, vres, env, users, req>>

MfaSetup ==
    /\ nextSecret <= MaxSecrets
    /\ LET inp == [NoInput EXCEPT !.secret = nextSecret]
           w == MfaSetupRun(db, NewRequest("mfaSetup", inp), now)
       IN  /\ db' = w.db
           /\ res' = Completion("mfaSetup", inp, w.m.out)
           /\ nextSecret' = IF w.m.out.status = 200 THEN nextSecret + 1 ELSE nextSecret
    /\ UNCHANGED <<now, mfaTok, reqs, streak, redeemed, fails, pwd, vres, env, users, req, jar>>

MfaConfirm(codes) ==
    \E c \in codes :
        LET inp == [NoInput EXCEPT !.code = c]
            w == MfaConfirmRun(db, NewRequest("mfaConfirm", inp), now)
        IN  /\ db' = w.db
            /\ res' = Completion("mfaConfirm", inp, w.m.out)
            /\ UNCHANGED <<now, mfaTok, nextSecret, reqs, streak, redeemed, fails, pwd, vres, env, users, req, jar>>

MfaVerify(tokens, creds) ==
    \E tk \in tokens, cr \in creds :
        /\ tk = "mfa" => mfaTok # "none"
        /\ LET inp == [NoInput EXCEPT !.token = tk, !.code = cr.code,
                                      !.recoveryCode = cr.recoveryCode]
               w == MfaVerifyRun(db, NewRequest("mfaVerify", inp), mfaTok)
           IN  /\ db' = w.db
               /\ res' = Completion("mfaVerify", inp, w.m.out)
               /\ redeemed' = IF w.m.out.status = 200 /\ cr.code = Null
                              THEN redeemed \cup {toUpperCase(cr.recoveryCode[1])}
                              ELSE redeemed
               /\ jar' = JarAfter(w.m.out, 1)
        /\ UNCHANGED <<now, mfaTok, nextSecret, reqs, streak, fails, pwd, vres, env, users, req>>

MfaDisable(passwords, creds) ==
    \E p \in passwords, cr \in creds :
        LET inp == [NoInput EXCEPT !.pw = p, !.code = cr.code,
                                   !.recoveryCode = cr.recoveryCode]
            w == MfaDisableRun(db, NewRequest("mfaDisable", inp), now)
        IN  /\ db' = w.db
            /\ res' = Completion("mfaDisable", inp, w.m.out)
            /\ UNCHANGED <<now, mfaTok, nextSecret, reqs, streak, redeemed, fails, pwd, vres, env, users, req, jar>>

LoginAdmin(inputs) ==
    \E inp \in inputs :
        /\ res' = Completion("loginAdmin", inp, loginAdmin(db, users, NewRequest("loginAdmin", inp)).out)
        /\ jar' = JarAfter(loginAdmin(db, users, NewRequest("loginAdmin", inp)).out, 1)
        /\ UNCHANGED <<db, now, mfaTok, nextSecret, reqs, streak, redeemed, fails, pwd, vres,
                       env, users, req>>

(* five minutes after it was issued the MFA challenge token has expired *)
TokenExpire ==
    /\ mfaTok = "live"
    /\ mfaTok' = "expired"
    /\ UNCHANGED <<db, now, nextSecret, reqs, res, streak, redeemed, fails, pwd, vres, env, users, req, jar>>

(* time passes; an MFA challenge token lives 5 minutes *)
Tick ==
    /\ now < MaxNow
    /\ now' = now + 1
    /\ mfaTok' = IF mfaTok = "live" THEN "expired" ELSE mfaTok
    /\ UNCHANGED <<db, nextSecret, reqs, res, streak, redeemed, fails, pwd, vres, env, users, req, jar>>

(* a wrong current password is tried with one new password only *)
ChangePassword(bodies) ==
    \E b \in bodies :
        /\ db.v < MaxChanges
        /\ bcryptCompare(b.currentPassword, db.password) \/ b.newPassword = Pw(1)
        /\ LET inp == [NoInput EXCEPT !.pw = b.currentPassword, !.newPw = b.newPassword]
               w == ChangePasswordRun(db, NewRequest("changePassword", inp), now)
           IN  /\ db' = w.db
               /\ res' = Completion("changePassword", inp, w.m.out)
        /\ UNCHANGED <<now, mfaTok, nextSecret, reqs, streak, redeemed, fails, pwd, vres, env, users, req, jar>>

(* a call of validatePassword, and its caller done with the result *)
Validate(passwords) ==
    /\ vres = Null
    /\ \E p \in passwords :
        /\ pwd' = p
        /\ vres' = Some(validatePassword(p))
    /\ UNCHANGED <<db, now, mfaTok, nextSecret, reqs, res, streak, redeemed, fails, env, users, req, jar>>

Return ==
    /\ vres # Null
    /\ pwd' = <<>>
    /\ vres' = Null
    /\ UNCHANGED <<db, now, mfaTok, nextSecret, reqs, res, streak, redeemed, fails, env, users, req, jar>>

----------------------------------------------------------------------------
(* Concurrent requests: the handlers' awaits are the points at which        *)
(* another request's step may come in between                              *)

Start(r, op, bodies) ==
    /\ reqs[r].pc = "idle"
    /\ \E inp \in bodies : reqs' = [reqs EXCEPT ![r] = NewRequest(op, inp)]
    /\ UNCHANGED <<db, now, mfaTok, nextSecret, res, streak, redeemed, fails, pwd, vres, env, users, req, jar>>

(* fails counts the failed logins registered so far *)
LoginNext(r) ==
    /\ reqs[r].op = "login"
    /\ reqs[r].pc \notin {"idle", "done"}
    /\ LET w == LoginStep(db, reqs[r], now)
       IN  /\ db' = w.db
           /\ reqs' = [reqs EXCEPT ![r] = w.m]
           /\ fails' = IF reqs[r].pc = "mismatched" /\ w.m.pc = "reload"
                       THEN fails + 1 ELSE fails
    /\ UNCHANGED <<now, mfaTok, nextSecret, res, streak, redeemed, pwd, vres, env, users, req, jar>>

(* redeemed holds the recovery codes a call has succeeded with *)
MfaVerifyNext(r) ==
    /\ reqs[r].op = "mfaVerify"
    /\ reqs[r].pc \notin {"idle", "done"}
    /\ LET w == MfaVerifyStep(db, reqs[r], mfaTok)
       IN  /\ db' = w.db
           /\ reqs' = [reqs EXCEPT ![r] = w.m]
           /\ redeemed' = IF w.m.pc = "done" /\ w.m.out.status = 200 /\ w.m.inp.code = Null
                          THEN redeemed \cup {toUpperCase(w.m.inp.recoveryCode[1])}
                          ELSE redeemed
    /\ UNCHANGED <<now, mfaTok, nextSecret, res, streak, fails, pwd, vres, env, users, req, jar>>

(* mfa/setup starts; speakeasy.generateSecret gives it the next secret *)
StartSetup(r) ==
    /\ reqs[r].pc = "idle"
    /\ nextSecret <= MaxSecrets
    /\ reqs' = [reqs EXCEPT ![r] = NewRequest("mfaSetup", [NoInput EXCEPT !.secret = nextSecret])]
    /\ nextSecret' = nextSecret + 1
    /\ UNCHANGED <<db, now, mfaTok, res, streak, redeemed, fails, pwd, vres, env, users, req, jar>>

(* the next step of an mfa/setup, mfa/confirm or mfa/disable request *)
MfaNext(r) ==
    /\ reqs[r].op \in {"mfaSetup", "mfaConfirm", "mfaDisable"}
    /\ reqs[r].pc \notin {"idle", "done"}
    /\ LET w == CASE reqs[r].op = "mfaSetup" -> MfaSetupStep(db, reqs[r], now)
                  [] reqs[r].op = "mfaConfirm" -> MfaConfirmStep(db, reqs[r], now)
                  [] OTHER -> MfaDisableStep(db, reqs[r], now)
       IN  /\ db' = w.db
           /\ reqs' = [reqs EXCEPT ![r] = w.m]
    /\ UNCHANGED <<now, mfaTok, nextSecret, res, streak, redeemed, fails, pwd, vres, env, users, req, jar>>

(* the store throws at a read or a write of request r *)
StoreError(r) ==
    /\ AtStoreOp(reqs[r])
    /\ reqs' = [reqs EXCEPT ![r] = catch(reqs[r])]
    /\ UNCHANGED <<db, now, mfaTok, nextSecret, res, streak, redeemed, fails, pwd, vres, env, users, req, jar>>

(* the response is sent *)
Respond(r) ==
    /\ reqs[r].pc = "done"
    /\ res' = Completion(reqs[r].op, reqs[r].inp, reqs[r].out)
    /\ reqs' = [reqs EXCEPT ![r] = Idle]
    /\ mfaTok' = TokAfter(reqs[r].out)
    /\ jar' = JarAfter(reqs[r].out, 1)
    /\ UNCHANGED <<db, now, nextSecret, streak, redeemed, fails, pwd, vres, env, users, req>>

----------------------------------------------------------------------------
(* The login flow: lockout, expiry, MFA challenge *)
Next ==
    \/ Login(LoginInputs)
    \/ MfaSetup
    \/ MfaConfirm({Some(Totp(1, 0))})
    \/ MfaVerify({"mfa", "garbage"}, FlowCredentials)
    \/ TokenExpire
    \/ Tick

Spec == Init /\ [][Next]_vars

(* The login flow with the admin login beside it *)
NextAdmin == Next \/ LoginAdmin(LoginInputs)

SpecAdmin == Init /\ [][NextAdmin]_vars

(* The MFA lifecycle: setup, confirm, verify, disable *)
InitAccount ==
    /\ InitCommon
    /\ db = InitDb

NextMfa ==
    \/ Login(CorrectLogin)
    \/ MfaSetup
    \/ MfaConfirm({Null} \cup {Some(c) : c \in TotpInputs})
    \/ MfaVerify({"mfa"}, Credentials)
    \/ MfaDisable({Pw(1), Pw(2)}, DisableCredentials)
    \/ TokenExpire

SpecMfa == InitAccount /\ [][NextMfa]_vars

(* Concurrent failed logins *)
WrongLogin == {LoginBody(KnownEmail, Pw(2))}

NextLoginRace ==
    \E r \in Requests :
        \/ Start(r, "login", WrongLogin)
        \/ LoginNext(r)
        \/ Respond(r)

SpecLoginRace == InitAccount /\ [][NextLoginRace]_vars

(* Concurrent failed logins with time passing between their steps *)
NextLockRace == NextLoginRace \/ Tick

SpecLockRace == InitAccount /\ [][NextLockRace]_vars

(* Concurrent redemption of recovery codes: the account has MFA on and the  *)
(* password step of a login has issued an MFA challenge token              *)
EnrolledDb ==
    LET s == MfaSetupRun(InitDb, NewRequest("mfaSetup", [NoInput EXCEPT !.secret = 1]), 0)
        c == MfaConfirmRun(s.db, NewRequest("mfaConfirm",
                                            [NoInput EXCEPT !.code = Some(Totp(1, 0))]), 0)
    IN  c.db

InitRedeemRace ==
    /\ now = 0
    /\ mfaTok = "live"
    /\ nextSecret = 2
    /\ reqs = [r \in Requests |-> Idle]
    /\ res = NoRes
    /\ streak = 0
    /\ redeemed = {}
    /\ fails = 0
    /\ pwd = <<>>
    /\ vres = Null
    /\ env = [JWT_SECRET |-> "k1", MFA_JWT_SECRET |-> "k2"]
    /\ users = InitUsers
    /\ req = NoReq
    /\ jar = Null
    /\ db = EnrolledDb

VerifyBodies ==
    {[NoInput EXCEPT !.token = "mfa", !.code = cr.code, !.recoveryCode = cr.recoveryCode] :
        cr \in {RecoveryBody(Recovery(1, i, TRUE)) : i \in 1..MaxTried}}

NextRedeemRace ==
    \/ \E r \in Requests :
        \/ Start(r, "mfaVerify", VerifyBodies)
        \/ MfaVerifyNext(r)
        \/ Respond(r)
    \/ TokenExpire

SpecRedeemRace == InitRedeemRace /\ [][NextRedeemRace]_vars

(* Store failures during login and mfa/verify, for an account with and    *)
(* without MFA                                                             *)
InitStoreError ==
    /\ InitCommon
    /\ db \in {InitDb, EnrolledDb}

(* one request at a time, taken step by step, until five failed logins     *)
(* have been registered                                                    *)
NextStoreError ==
    \/ fails < MAX_ATTEMPTS
           /\ Start(1, "login", {LoginBody(KnownEmail, Pw(1)), LoginBody(KnownEmail, Pw(2))})
    \/ LoginNext(1)
    \/ mfaTok # "none"
           /\ Start(1, "mfaVerify",
                    VerifyBodies \cup {[NoInput EXCEPT !.token = "mfa", !.code = Some(Totp(1, 0))]})
    \/ MfaVerifyNext(1)
    \/ StoreError(1)
    \/ Respond(1)

SpecStoreError == InitStoreError /\ [][NextStoreError]_vars

(* the audit store goes down while request r is in flight: AuditLog.create *)
(* rejects from now on                                                     *)
AuditStoreDown(r) ==
    /\ reqs[r].pc \notin {"idle", "done"}
    /\ reqs[r].auditOk
    /\ reqs' = [reqs EXCEPT ![r].auditOk = FALSE]
    /\ UNCHANGED <<db, now, mfaTok, nextSecret, res, streak, redeemed, fails, pwd, vres, env, users, req, jar>>

(* Logins taken step by step while the audit store may fail *)
NextAudit ==
    \/ fails < MAX_ATTEMPTS /\ Start(1, "login", LoginInputs)
    \/ LoginNext(1)
    \/ AuditStoreDown(1)
    \/ Respond(1)
    \/ Tick

SpecAudit == Init /\ [][NextAudit]_vars

(* Concurrent mfa/setup, mfa/confirm and mfa/disable requests of one user *)
NextMfaRace ==
    \E r \in Requests :
        \/ StartSetup(r)
        \/ Start(r, "mfaConfirm", {[NoInput EXCEPT !.code = Some(Totp(s, 0))] : s \in 1..MaxSecrets})
        \/ Start(r, "mfaDisable",
                 {[NoInput EXCEPT !.pw = Pw(1), !.code = Some(Totp(s, 0))] : s \in 1..MaxSecrets})
        \/ MfaNext(r)
        \/ Respond(r)

SpecMfaRace == InitAccount /\ [][NextMfaRace]_vars

(* Password changes *)
PasswordIds == 1..7

WeakPassword == <<"p", "a", "s", "s", "w", "o", "r", "d">>

(* the current password as the account's owner knows it, and two guesses at it *)
ChangeBodies ==
    {[currentPassword |-> Pw(c), newPassword |-> n] :
        c \in PasswordIds, n \in {Pw(i) : i \in PasswordIds} \cup {WeakPassword}}
    \cup {[currentPassword |-> <<>>, newPassword |-> Pw(1)],
          [currentPassword |-> WeakPassword, newPassword |-> Pw(1)],
          [currentPassword |-> Pw(1), newPassword |-> <<>>]}

NextPw == ChangePassword(ChangeBodies)

SpecPw == InitAccount /\ [][NextPw]_vars

(* Password validation *)
PolicyChars == {"A", "a", "1", "!", "/"}

FillChar == " "

RECURSIVE Prefixes(_)
Prefixes(n) ==
    IF n = 0 THEN {<<>>}
    ELSE Prefixes(n - 1)
         \cup {Append(p, c) : p \in {q \in Prefixes(n - 1) : Len(q) = n - 1}, c \in PolicyChars}

(* lengths around the limits *)
PolicyLengths ==
    {PASSWORD_MIN_LENGTH - 1, PASSWORD_MIN_LENGTH, PASSWORD_MAX_LENGTH, PASSWORD_MAX_LENGTH + 1}

PolicyInputs ==
    Prefixes(MaxPrefix)
    \cup {p \o Repeat(FillChar, n - Len(p)) : p \in Prefixes(MaxPrefix), n \in PolicyLengths}

NextPolicy == Validate(PolicyInputs) \/ Return

SpecPolicy == InitAccount /\ [][NextPolicy]_vars

(* Tokens and routes.  The two secrets are configured independently, so   *)
(* they may be equal.                                                      *)
Secrets == {"k1", "k2"}

InitAuth ==
    /\ now = 0
    /\ mfaTok = "live"
    /\ nextSecret = 2
    /\ reqs = [r \in Requests |-> Idle]
    /\ res = NoRes
    /\ streak = 0
    /\ redeemed = {}
    /\ fails = 0
    /\ pwd = <<>>
    /\ vres = Null
    /\ env \in [JWT_SECRET : Secrets, MFA_JWT_SECRET : Secrets]
    /\ users = InitUsers
    /\ req = NoReq
    /\ jar = Null
    /\ db = EnrolledDb

(* the tokens the server has issued, fresh or past their expiry: access    *)
(* tokens of the three users and of a user since deleted, and MFA tokens   *)
(* of the modelled account                                                 *)
AccessTokens == {[generateToken(u, env) EXCEPT !.expired = x] : u \in 1..4, x \in BOOLEAN}

MfaTokens == {[generateMfaToken(1, env) EXCEPT !.expired = x] : x \in BOOLEAN}

(* tokens signed with a key that is neither secret *)
ForgedTokens == {[t EXCEPT !.key = "forged"] : t \in {generateToken(1, env), generateMfaToken(1, env)}}

Presented == {Null} \cup {Some(t) : t \in AccessTokens \cup MfaTokens \cup ForgedTokens}

(* a route behind auth *)
AuthRoute ==
    \E tk \in Presented :
        LET a == auth(tk, env, users)
        IN  /\ res' = Completion("protected", [token |-> tk],
                                  IF a.next THEN Resp(200, FALSE, {}) ELSE a.out)
            /\ req' = IF a.next THEN [a.req EXCEPT !.handler = "protected"] ELSE NoReq
            /\ UNCHANGED <<db, now, mfaTok, nextSecret, reqs, streak, redeemed, fails, pwd, vres,
                           env, users, jar>>

(* PATCH /auth/status/:id: adminAuth, then updateUserStatus *)
PatchStatus(ids, statuses) ==
    \E tk \in Presented, id \in ids, status \in statuses :
        LET a == adminAuth(tk, env, users)
            h == updateUserStatus(users, id, status)
            inp == [token |-> tk, id |-> id, status |-> status]
        IN  /\ users' = IF a.next THEN h.users ELSE users
            /\ res' = Completion("updateUserStatus", inp, IF a.next THEN h.out ELSE a.out)
            /\ req' = IF a.next THEN [a.req EXCEPT !.handler = "updateUserStatus"] ELSE NoReq
            /\ UNCHANGED <<db, now, mfaTok, nextSecret, reqs, streak, redeemed, fails, pwd, vres, env, jar>>

(* POST /mfa/verify with any of the tokens as mfaToken *)
MfaVerifyWith(creds) ==
    \E tk \in Presented, cr \in creds :
        LET rejected == mfaVerifyToken(tk, env)
            body == [NoInput EXCEPT !.token = "mfa", !.code = cr.code,
                                    !.recoveryCode = cr.recoveryCode]
            w == MfaVerifyRun(db, NewRequest("mfaVerify", body), "live")
            inp == [token |-> tk, code |-> cr.code, recoveryCode |-> cr.recoveryCode]
        IN  /\ db' = IF rejected = Null THEN w.db ELSE db
            /\ res' = Completion("mfaVerify", inp, IF rejected = Null THEN w.m.out ELSE rejected[1])
            /\ req' = NoReq
            /\ jar' = IF rejected = Null THEN JarAfter(w.m.out, 1) ELSE jar
            /\ UNCHANGED <<now, mfaTok, nextSecret, reqs, streak, redeemed, fails, pwd, vres,
                           env, users>>

NextAuth ==
    \/ AuthRoute
    \/ PatchStatus({2, 4}, {"hold", "disable", "deleted"})
    \/ MfaVerifyWith({CodeBody(Totp(1, 0)), CodeBody(Totp(1, TOTP_WINDOW + 1))})

SpecAuth == InitAuth /\ [][NextAuth]_vars

(* Registration through the public signup and the admin registration *)
RegisterBodies ==
    {[email |-> e, pw |-> p, role |-> r, secretKey |-> k] :
        e \in {KnownEmail, "new@example.com", "other@example.com"},
        p \in {Pw(2), WeakPassword},
        r \in {Null, Some("user"), Some("lawyer"), Some("admin"), Some("root")},
        k \in {Null, Some("admin999"), Some("guess")}}

Register(bodies) ==
    \E b \in bodies :
        LET h == register(users, b)
        IN  /\ Len(users) < MaxUsers
            /\ users' = h.users
            /\ res' = Completion("register", b, h.out)
            /\ jar' = JarAfter(h.out, Len(h.users))
            /\ UNCHANGED <<db, now, mfaTok, nextSecret, reqs, streak, redeemed, fails, pwd, vres,
                           env, req>>

RegisterAdmin(bodies) ==
    \E b \in bodies :
        LET h == registerAdmin(users, b)
        IN  /\ Len(users) < MaxUsers
            /\ users' = h.users
            /\ res' = Completion("registerAdmin", b, h.out)
            /\ jar' = JarAfter(h.out, Len(h.users))
            /\ UNCHANGED <<db, now, mfaTok, nextSecret, reqs, streak, redeemed, fails, pwd, vres,
                           env, req>>

NextRegister == Register(RegisterBodies) \/ RegisterAdmin(RegisterBodies)

SpecRegister == InitAccount /\ [][NextRegister]_vars

(* Recovery from an expired password. The account's owner holds no access  *)
(* token, knows the current password and uses it; the account is an admin's *)
(* or a user's.                                                             *)
InitRecover ==
    /\ now = 0
    /\ mfaTok = "none"
    /\ nextSecret = 1
    /\ reqs = [r \in Requests |-> Idle]
    /\ res = NoRes
    /\ streak = 0
    /\ redeemed = {}
    /\ fails = 0
    /\ pwd = <<>>
    /\ vres = Null
    /\ env = [JWT_SECRET |-> "k1", MFA_JWT_SECRET |-> "k2"]
    /\ \E role \in {"admin", "user"} : users = [InitUsers EXCEPT ![1].role = role]
    /\ req = NoReq
    /\ jar = Null
    /\ db = [InitDb EXCEPT !.passwordExpiresAt = Some(0)]

(* change-password behind auth: req.user is the user of the cookie's token *)
ChangePasswordRoute(newPasswords) ==
    \E c \in PasswordIds, n \in newPasswords :
        LET a == auth(jar, env, users)
            inp == [NoInput EXCEPT !.pw = Pw(c), !.newPw = n]
            w == ChangePasswordRun(db, NewRequest("changePassword", inp), now)
        IN  /\ db.v < MaxChanges
            /\ bcryptCompare(Pw(c), db.password)
            /\ db' = IF a.next THEN w.db ELSE db
            /\ res' = Completion("changePassword", inp, IF a.next THEN w.m.out ELSE a.out)
            /\ req' = IF a.next THEN [a.req EXCEPT !.handler = "changePassword"] ELSE NoReq
            /\ UNCHANGED <<now, mfaTok, nextSecret, reqs, streak, redeemed, fails, pwd, vres,
                           env, users, jar>>

(* the owner logs in with the current password and picks a new password  *)
(* other than the current one                                              *)
NextRecover ==
    LET known == {i \in PasswordIds : bcryptCompare(Pw(i), db.password)}
        current == {LoginBody(KnownEmail, Pw(c)) : c \in known}
        others == {Pw(c) : c \in (1..4) \ known}
    IN  \/ Login(current)
        \/ LoginAdmin(current)
        \/ ChangePasswordRoute(others)

(* the owner goes on making each of the three requests: none of them is   *)
(* ever disabled, so this is weak fairness of each                         *)
SpecRecover ==
    /\ InitRecover
    /\ [][NextRecover]_vars
    /\ WF_vars(NextRecover /\ res'.op = "login")
    /\ WF_vars(NextRecover /\ res'.op = "loginAdmin")
    /\ WF_vars(NextRecover /\ res'.op = "changePassword")

----------------------------------------------------------------------------
(* Properties *)

(* a step in which a handler of kind op completes *)
Completes(op) == res'.n # res.n /\ res'.op = op

LoginOf(e, p) == Completes("login") /\ res'.inp.email = e /\ res'.inp.pw = p

StoredLocked == db.lockUntil # Null /\ db.lockUntil[1] > now

StoredExpired == db.passwordExpiresAt # Null /\ db.passwordExpiresAt[1] <= now

(* C1: starting unlocked with a zero counter, the 5th login in a row with a *)
(* wrong password locks the account (it is answered 423 and lockUntil is   *)
(* in the future), and while lockUntil is in the future every login        *)
(* request, with a wrong or with the correct password, is answered 423,    *)
(* sets no cookie and changes nothing.                                     *)
C1_FifthFailureLocks ==
    (streak = MAX_ATTEMPTS - 1 /\ streak' = MAX_ATTEMPTS)
        => /\ db'.lockUntil # Null
           /\ db'.lockUntil[1] > now'
           /\ db'.failedLoginAttempts = MAX_ATTEMPTS
           /\ res'.out.status = 423

C1_LockedAnswers423 ==
    (Completes("login") /\ res'.inp.email = KnownEmail /\ StoredLocked)
        => /\ res'.out.status = 423
           /\ ~res'.out.cookie
           /\ db' = db
           /\ mfaTok' = mfaTok

C1_Lockout == [][C1_FifthFailureLocks /\ C1_LockedAnswers423]_vars

(* C1 witness: a login with the correct password answered 423 on an account *)
(* that five failures in a row have locked                                 *)
C1_Witness ==
    /\ res.op = "login"
    /\ res.inp.pw = Pw(1)
    /\ res.inp.email = KnownEmail
    /\ res.out.status = 423
    /\ db.failedLoginAttempts = MAX_ATTEMPTS
    /\ StoredLocked

(* C2: a login with correct credentials on an account neither locked nor   *)
(* expired is answered 200: with the session cookie and no mfaRequired     *)
(* field when MFA is off; with mfaRequired and an mfaToken and no cookie   *)
(* when MFA is on.  For an account with MFA on, the flow sets the cookie   *)
(* only in mfa/verify presented with a live mfaToken, and a verify call    *)
(* with a TOTP code sets it exactly when the code is correct.              *)
C2_LoginAnswer ==
    (LoginOf(KnownEmail, Pw(1)) /\ ~StoredLocked /\ ~StoredExpired)
        => /\ res'.out.status = 200
           /\ IF db.mfaEnabled
              THEN /\ {"mfaRequired", "mfaToken"} \subseteq res'.out.body
                   /\ ~res'.out.cookie
                   /\ mfaTok' = "live"
              ELSE /\ res'.out.cookie
                   /\ "mfaRequired" \notin res'.out.body
                   /\ "mfaToken" \notin res'.out.body

C2_CookieOnlyByVerify ==
    (res'.n # res.n /\ db.mfaEnabled /\ res'.out.cookie)
        => /\ res'.op = "mfaVerify"
           /\ res'.inp.token = "mfa"
           /\ mfaTok = "live"

C2_VerifyTotp ==
    (Completes("mfaVerify") /\ res'.inp.token = "mfa" /\ mfaTok = "live"
        /\ db.mfaEnabled /\ res'.inp.code # Null)
        => LET c == res'.inp.code[1]
               correct == /\ db.mfaSecret = Some(c.secret)
                          /\ c.offset >= 0 - TOTP_WINDOW
                          /\ c.offset <= TOTP_WINDOW
           IN  /\ res'.out.cookie <=> correct
               /\ res'.out.status = IF correct THEN 200 ELSE 401

C7_ExpiredRejected ==
    (LoginOf(KnownEmail, Pw(1)) /\ ~StoredLocked /\ StoredExpired)
        => /\ res'.out.status = 403
           /\ {"passwordExpired", "requiresPasswordChange"} \subseteq res'.out.body
           /\ ~res'.out.cookie
           /\ "mfaToken" \notin res'.out.body
           /\ "mfaRequired" \notin res'.out.body
           /\ mfaTok' = mfaTok

C7_NullNeverExpires ==
    (Completes("login") /\ db.passwordExpiresAt = Null)
        => /\ res'.out.status # 403
           /\ "passwordExpired" \notin res'.out.body

C7_Expiry == [][C7_ExpiredRejected /\ C7_NullNeverExpires]_vars

(* C7 witness: the login of an account with MFA on was rejected as expired *)
C7_Witness ==
    /\ res.op = "login"
    /\ res.out.status = 403
    /\ "passwordExpired" \in res.out.body
    /\ db.mfaEnabled
    /\ db.passwordExpiresAt = Some(now)

(* C8: after a successful full login (the response that sets the session   *)
(* cookie: login without MFA, mfa/verify with MFA) the stored record has   *)
(* failedLoginAttempts = 0 and lockUntil = null.                           *)
C8_FullLoginResets ==
    (res.op \in {"login", "mfaVerify"} /\ res.out.cookie)
        => db.failedLoginAttempts = 0 /\ db.lockUntil = Null

(* C3: a recovery code is accepted by mfa/verify exactly once.  A verify    *)
(* call with a live mfaToken on an account with MFA on that presents an    *)
(* unredeemed code succeeds and removes that code's hash and no other; one *)
(* that presents a code whose hash is not stored is answered 401 and       *)
(* changes nothing; and the hash of a redeemed code is never stored again. *)
C3_RedeemedStayAbsent ==
    \A c \in redeemed : sha256(c) \notin Range(db.mfaRecoveryCodes)

C3_VerifyRecovery ==
    (Completes("mfaVerify") /\ res'.inp.token = "mfa" /\ mfaTok = "live"
        /\ db.mfaEnabled /\ res'.inp.code = Null /\ res'.inp.recoveryCode # Null)
        => LET typed == res'.inp.recoveryCode[1]
               h == sha256([gen |-> typed.gen, idx |-> typed.idx, upper |-> TRUE])
           IN  IF h \in Range(db.mfaRecoveryCodes)
               THEN /\ res'.out.status = 200
                    /\ res'.out.cookie
                    /\ Range(db'.mfaRecoveryCodes) = Range(db.mfaRecoveryCodes) \ {h}
                    /\ Len(db'.mfaRecoveryCodes) = Len(db.mfaRecoveryCodes) - 1
               ELSE /\ res'.out.status = 401
                    /\ ~res'.out.cookie
                    /\ db' = db

C3_OneTimeCodes == []C3_RedeemedStayAbsent /\ [][C3_VerifyRecovery]_vars

(* C3 witness: a second verify call with a redeemed code was answered 401   *)
(* while the seven other codes are still stored                            *)
C3_Witness ==
    /\ res.op = "mfaVerify"
    /\ res.inp.recoveryCode # Null
    /\ res.inp.code = Null
    /\ toUpperCase(res.inp.recoveryCode[1]) \in redeemed
    /\ res.out.status = 401
    /\ db.mfaEnabled
    /\ Len(db.mfaRecoveryCodes) = RECOVERY_CODE_COUNT - 1

(* C6: mfa/disable succeeds only with the correct password and a valid     *)
(* TOTP code or unredeemed recovery code; with the correct password and an *)
(* invalid code it is answered 401 and the record is unchanged; on success *)
(* mfaSecret, mfaTempSecret and mfaRecoveryCodes are cleared and           *)
(* mfaEnabled is false.                                                    *)
C6_TotpValid(inp) ==
    /\ inp.code # Null
    /\ db.mfaSecret = Some(inp.code[1].secret)
    /\ inp.code[1].offset >= 0 - TOTP_WINDOW
    /\ inp.code[1].offset <= TOTP_WINDOW

C6_RecoveryValid(inp) ==
    /\ inp.recoveryCode # Null
    /\ sha256([gen |-> inp.recoveryCode[1].gen, idx |-> inp.recoveryCode[1].idx, upper |-> TRUE])
           \in Range(db.mfaRecoveryCodes)

C6_DisableStep ==
    Completes("mfaDisable")
        => LET inp == res'.inp
               pwOk == db.password = bcryptHash(inp.pw)
           IN  /\ res'.out.status = 200
                    => /\ db.mfaEnabled
                       /\ pwOk
                       /\ C6_TotpValid(inp) \/ C6_RecoveryValid(inp)
                       /\ ~db'.mfaEnabled
                       /\ db'.mfaSecret = Null
                       /\ db'.mfaTempSecret = Null
                       /\ db'.mfaRecoveryCodes = <<>>
               /\ res'.out.status # 200 => db' = db
               /\ (db.mfaEnabled /\ pwOk /\ (inp.code # Null \/ inp.recoveryCode # Null)
                      /\ ~C6_TotpValid(inp) /\ ~C6_RecoveryValid(inp))
                    => res'.out.status = 401

C6_Disable == [][C6_DisableStep]_vars

(* C6 witness: mfa/disable with the correct password and an invalid code    *)
(* was answered 401 and MFA is still on                                    *)
C6_Witness ==
    /\ res.op = "mfaDisable"
    /\ res.inp.pw = Pw(1)
    /\ res.out.status = 401
    /\ db.mfaEnabled
    /\ db.mfaSecret # Null
    /\ Len(db.mfaRecoveryCodes) > 0

(* C4: two concurrent mfa/verify calls that present the same unredeemed     *)
(* recovery code never both succeed: a call that decides after another has *)
(* succeeded with the code does not issue a session, and it is a call that *)
(* found the code absent from the document it read.                        *)
C4_LoserFoundCodeAbsent ==
    \A r \in Requests :
        (/\ reqs[r].op = "mfaVerify"
         /\ reqs[r].pc = "loaded"
         /\ reqs'[r].pc = "done"
         /\ reqs[r].inp.code = Null
         /\ toUpperCase(reqs[r].inp.recoveryCode[1]) \in redeemed)
            => /\ reqs'[r].out.status # 200
               /\ findIndex(reqs[r].doc.mfaRecoveryCodes,
                            sha256(toUpperCase(reqs[r].inp.recoveryCode[1]))) = 0

C4_ConcurrentRedemption == [][C4_LoserFoundCodeAbsent]_vars

(* no call succeeds with a recovery code another call has succeeded with *)
AtMostOneSessionPerCode ==
    [][\A r \in Requests :
          (/\ reqs[r].op = "mfaVerify"
           /\ reqs[r].pc = "loaded"
           /\ reqs'[r].pc = "done"
           /\ reqs[r].inp.code = Null
           /\ toUpperCase(reqs[r].inp.recoveryCode[1]) \in redeemed)
              => ~reqs'[r].out.cookie]_vars

(* C5: concurrent failed logins never lose a counter update: the stored    *)
(* failedLoginAttempts is the number of failed logins registered, and the  *)
(* account is locked once that number has reached maxAttempts.             *)
C5_NoLostUpdate ==
    /\ db.failedLoginAttempts = fails
    /\ fails >= MAX_ATTEMPTS => db.lockUntil # Null

(* C9: after five changes from P1 a request for P1 is accepted and a        *)
(* request for any of the five later passwords is rejected with 400.       *)
C9_AfterFiveChanges ==
    (/\ Completes("changePassword")
     /\ db.v = PASSWORD_HISTORY_COUNT
     /\ bcryptCompare(res'.inp.pw, db.password))
        => /\ res'.inp.newPw = Pw(1) => res'.out.status = 200
           /\ (\/ bcryptCompare(res'.inp.newPw, db.password)
               \/ \E i \in 1..(PASSWORD_HISTORY_COUNT - 1) :
                      bcryptCompare(res'.inp.newPw, db.passwordHistory[i]))
                 => res'.out.status = 400

C9_ReuseAfterFive == [][C9_AfterFiveChanges]_vars

(* What change-password does: the history holds the five passwords before   *)
(* the current one.  A request with the correct current password and a new  *)
(* password that meets the policy is rejected with 400 when the new         *)
(* password is the current one or one of the history, and otherwise         *)
(* accepted, the current hash going to the front of the history and the     *)
(* sixth entry dropped; so P1 is accepted again only as the seventh change. *)
C9_HistoryCap == Len(db.passwordHistory) <= PASSWORD_HISTORY_COUNT

C9_P1AfterSixChanges ==
    (res.op = "changePassword" /\ res.out.status = 200 /\ res.inp.newPw = Pw(1))
        => db.v >= PASSWORD_HISTORY_COUNT + 2

C9_ChangeStep ==
    (/\ Completes("changePassword")
     /\ bcryptCompare(res'.inp.pw, db.password)
     /\ \E i \in PasswordIds : res'.inp.newPw = Pw(i))
        => LET h == bcryptHash(res'.inp.newPw)
               before == <<db.password>> \o db.passwordHistory
           IN  IF h \in Range(before)
               THEN res'.out.status = 400 /\ db' = db
               ELSE /\ res'.out.status = 200
                    /\ db'.password = h
                    /\ db'.passwordHistory =
                           SubSeq(before, 1, IF Len(before) > PASSWORD_HISTORY_COUNT
                                             THEN PASSWORD_HISTORY_COUNT ELSE Len(before))

C9_History == []C9_HistoryCap /\ []C9_P1AfterSixChanges /\ [][C9_ChangeStep]_vars

(* P1 was accepted as the seventh password change, the six before it       *)
(* having filled and turned over the history                               *)
C9_Witness ==
    /\ res.op = "changePassword"
    /\ res.out.status = 200
    /\ res.inp.newPw = Pw(1)
    /\ db.password = bcryptHash(Pw(1))
    /\ Len(db.passwordHistory) = PASSWORD_HISTORY_COUNT
    /\ db.v = PASSWORD_HISTORY_COUNT + 2

(* C10: validatePassword answers valid exactly for a password of 8 to 128  *)
(* characters with an uppercase letter, a lowercase letter, a digit and a  *)
(* character of specialChars.                                              *)
C10_ValidIffPolicy ==
    vres # Null
        => (vres[1].valid
               <=> /\ Len(pwd) >= PASSWORD_MIN_LENGTH
                   /\ Len(pwd) <= PASSWORD_MAX_LENGTH
                   /\ \E i \in 1..Len(pwd) : pwd[i] \in UpperCase
                   /\ \E i \in 1..Len(pwd) : pwd[i] \in LowerCase
                   /\ \E i \in 1..Len(pwd) : pwd[i] \in Digits
                   /\ \E i \in 1..Len(pwd) : pwd[i] \in Range(specialChars))

(* C11: mfa/setup on an account with MFA on is answered 400 (already       *)
(* enabled) and changes nothing; on an account with MFA off it stores the  *)
(* freshly generated secret as mfaTempSecret, in place of any pending one, *)
(* and changes no other field of the record.                               *)
C11_SetupStep ==
    Completes("mfaSetup")
        => IF db.mfaEnabled
           THEN /\ res'.out.status = 400
                /\ res'.out.body = {"message:already"}
                /\ db' = db
           ELSE /\ res'.out.status = 200
                /\ res'.inp.secret = nextSecret
                /\ Some(res'.inp.secret) \notin {db.mfaTempSecret, db.mfaSecret}
                /\ db' = [db EXCEPT !.mfaTempSecret = Some(res'.inp.secret)]

C11_Setup == [][C11_SetupStep]_vars

(* C11 witness: a second mfa/setup has replaced the pending secret of an    *)
(* account that never confirmed the first                                  *)
C11_Witness ==
    /\ res.op = "mfaSetup"
    /\ res.out.status = 200
    /\ res.inp.secret = 2
    /\ db.mfaTempSecret = Some(2)
    /\ ~db.mfaEnabled
    /\ db.mfaSecret = Null
    /\ db.v = 0

(***************************************************************************)
(* C12: POST /mfa/confirm enables MFA if and only if a pending             *)
(* mfaTempSecret exists and the submitted TOTP code verifies against it;   *)
(* every other request is answered with a failure and leaves mfaEnabled,   *)
(* mfaSecret, mfaTempSecret and mfaRecoveryCodes as they were.             *)
(***************************************************************************)
C12_Verifies(code) ==
    /\ code # Null
    /\ db.mfaTempSecret # Null
    /\ code[1].secret = db.mfaTempSecret[1]
    /\ Abs(code[1].offset) <= TOTP_WINDOW

C12_ConfirmStep ==
    Completes("mfaConfirm")
        => IF C12_Verifies(res'.inp.code)
           THEN /\ res'.out.status = 200
                /\ db'.mfaEnabled
           ELSE /\ res'.out.status = 400
                /\ db'.mfaEnabled = db.mfaEnabled
                /\ db'.mfaSecret = db.mfaSecret
                /\ db'.mfaTempSecret = db.mfaTempSecret
                /\ db'.mfaRecoveryCodes = db.mfaRecoveryCodes
                /\ db' = db

C12_Confirm == [][C12_ConfirmStep]_vars

(* a confirm with a pending secret and a code outside the window was       *)
(* refused, and the setup is still pending                                 *)
C12_Witness ==
    /\ res.op = "mfaConfirm"
    /\ res.out.status = 400
    /\ res.out.body = {"message:invalid"}
    /\ res.inp.code = Some(Totp(1, TOTP_WINDOW + 1))
    /\ db.mfaTempSecret = Some(1)
    /\ ~db.mfaEnabled
    /\ db.mfaSecret = Null

(***************************************************************************)
(* C13: a successful POST /mfa/confirm sets mfaEnabled, moves the pending  *)
(* secret to mfaSecret and clears mfaTempSecret, stores exactly 8          *)
(* recovery-code hashes and never a plaintext code, and returns the 8      *)
(* plaintext codes whose hashes it stored; no response of any other        *)
(* operation carries recovery codes.                                       *)
(***************************************************************************)
C13_SuccessStep ==
    Completes("mfaConfirm") /\ res'.out.status = 200
        => LET returned == res'.out.recoveryCodes
               stored == db'.mfaRecoveryCodes
           IN  /\ db'.mfaEnabled
               /\ db'.mfaSecret = db.mfaTempSecret /\ db'.mfaSecret # Null
               /\ db'.mfaTempSecret = Null
               /\ Len(stored) = 8
               /\ Len(returned) = 8
               /\ Cardinality(Range(returned)) = 8
               /\ \A i \in 1..8 : stored[i] = sha256(returned[i])
               /\ "recoveryCodes" \in res'.out.body

(* stored entries are digests, and only a successful confirm returns codes *)
C13_OnlyConfirmReturns ==
    /\ \A i \in 1..Len(db.mfaRecoveryCodes) : db.mfaRecoveryCodes[i][1] = "sha256"
    /\ res.out.recoveryCodes # <<>> \/ "recoveryCodes" \in res.out.body
           => res.op = "mfaConfirm" /\ res.out.status = 200

C13_RecoveryCodes == [][C13_SuccessStep]_vars /\ []C13_OnlyConfirmReturns

(* the setup of the second generated secret was confirmed and returned    *)
(* the 8 codes whose digests are stored                                   *)
C13_Witness ==
    /\ res.op = "mfaConfirm"
    /\ res.out.status = 200
    /\ res.out.recoveryCodes = GeneratedCodes(2)
    /\ db.mfaRecoveryCodes = HashAll(GeneratedCodes(2))
    /\ db.mfaSecret = Some(2)

(***************************************************************************)
(* C14: a login with an email no account has and a login with a wrong      *)
(* password for an existing account that is not locked and that this       *)
(* failure does not lock are answered alike: the same status 401, the same *)
(* generic message, no cookie and nothing else in the body.                *)
(***************************************************************************)
C14_Generic == Resp(401, FALSE, {"message:invalid"})

C14_BelowThreshold ==
    /\ ~StoredLocked
    /\ db.lockUntil # Null \/ db.failedLoginAttempts + 1 < MAX_ATTEMPTS

C14_WrongPassword ==
    /\ Completes("login")
    /\ res'.inp.email = KnownEmail
    /\ ~bcryptCompare(res'.inp.pw, db.password)
    /\ C14_BelowThreshold

C14_LoginStep ==
    /\ (Completes("login") /\ res'.inp.email = UnknownEmail) => res'.out = C14_Generic
    /\ C14_WrongPassword => res'.out = C14_Generic

C14_NoEnumeration == [][C14_LoginStep]_vars

(* the fourth wrong password in a row for the existing account was         *)
(* answered with the generic 401                                           *)
C14_Witness ==
    /\ res.op = "login"
    /\ res.inp.email = KnownEmail
    /\ res.inp.pw = Pw(2)
    /\ res.out = C14_Generic
    /\ db.failedLoginAttempts = MAX_ATTEMPTS - 1
    /\ db.lockUntil = Null

(***************************************************************************)
(* C15: no response body carries the stored password hash: neither as the  *)
(* password path of a returned user nor as a field of its own.             *)
(***************************************************************************)
C15_NoHashInResponse ==
    /\ "password" \notin res.out.body
    /\ res.out.user # Null => "password" \notin DOMAIN res.out.user[1]

(***************************************************************************)
(* C16: an MFA challenge token is consumed at most once: when an           *)
(* mfa/verify call with the token has issued a session, the next           *)
(* mfa/verify call with the same token, made before the token expires and  *)
(* with a valid code, issues no second session.                            *)
(***************************************************************************)
C16_SecondVerifyStep ==
    (/\ res.op = "mfaVerify" /\ res.inp.token = "mfa" /\ res.out.cookie
     /\ mfaTok = "live"
     /\ Completes("mfaVerify") /\ res'.inp.token = "mfa")
        => ~res'.out.cookie

C16_TokenConsumedOnce == [][C16_SecondVerifyStep]_vars

(***************************************************************************)
(* C17: token types are never confused.  The auth middleware never         *)
(* authenticates a request that presents an MFA token, and mfa/verify      *)
(* accepts as mfaToken only a token signed with the MFA secret whose       *)
(* purpose is mfa: with an access token it issues no session and changes   *)
(* nothing.                                                                *)
(***************************************************************************)
C17_AuthStep ==
    (\/ Completes("protected")
     \/ Completes("updateUserStatus")) /\ res'.inp.token \in {Some(t) : t \in MfaTokens}
        => /\ req' = NoReq
           /\ res'.out.status \in {401, 403}
           /\ users' = users

C17_VerifyStep ==
    /\ (Completes("mfaVerify") /\ res'.inp.token \in {Some(t) : t \in AccessTokens})
           => /\ ~res'.out.cookie
              /\ res'.out.status \in {400, 401}
              /\ db' = db
    /\ (Completes("mfaVerify") /\ res'.out.cookie)
           => /\ res'.inp.token # Null
              /\ res'.inp.token[1].key = env.MFA_JWT_SECRET
              /\ res'.inp.token[1].purpose = "mfa"

C17_TokenTypes == [][C17_AuthStep /\ C17_VerifyStep]_vars

(* with both secrets set to the same value, an unexpired MFA token         *)
(* presented to the auth middleware was refused                            *)
C17_Witness ==
    /\ env.JWT_SECRET = env.MFA_JWT_SECRET
    /\ res.op = "protected"
    /\ res.inp.token = Some(generateMfaToken(1, env))
    /\ res.out.status = 401
    /\ req = NoReq

(***************************************************************************)
(* C20: the handler of an admin-only route (PATCH /auth/status/:id) runs   *)
(* only for a request with a valid access token of a user whose role is    *)
(* admin.  An authenticated user of another role is answered 403 'Admins   *)
(* only', the handler is not invoked and the target's status is unchanged; *)
(* an admin's request reaches the handler.                                 *)
(***************************************************************************)
C20_Authenticated(tk) ==
    /\ tk # Null
    /\ tk[1].key = env.JWT_SECRET
    /\ ~tk[1].expired
    /\ tk[1].id \in DOMAIN users

C20_PatchStep ==
    Completes("updateUserStatus")
        => LET tk == res'.inp.token
               isAdmin == C20_Authenticated(tk) /\ users[tk[1].id].role = "admin"
           IN  /\ (req'.handler = "updateUserStatus") <=> isAdmin
               /\ isAdmin => req'.user = tk[1].id
               /\ (C20_Authenticated(tk) /\ ~isAdmin)
                      => /\ res'.out.status = 403
                         /\ res'.out.body = {"message:adminsonly"}
               /\ ~isAdmin => users' = users /\ req' = NoReq

C20_AdminOnly == [][C20_PatchStep]_vars

(* a lawyer's request to put a user on hold was answered 403 'Admins only' *)
(* after an admin had disabled that user                                   *)
C20_Witness ==
    /\ res.op = "updateUserStatus"
    /\ res.inp.token = Some(generateToken(3, env))
    /\ res.inp.id = 2 /\ res.inp.status = "hold"
    /\ res.out.status = 403
    /\ res.out.body = {"message:adminsonly"}
    /\ req = NoReq
    /\ users[2].status = "disable"

(***************************************************************************)
(* C18: wherever a TOTP code is verified (mfa/confirm, mfa/verify,         *)
(* mfa/disable), a code of the right secret generated for the server's     *)
(* time-step t or for t - 30 s, t + 30 s or t + 60 s is accepted, and one  *)
(* generated for t + 90 s or later is rejected.  One time-step is 30 s.    *)
(***************************************************************************)
C18_Accepted == {-1, 0, 1, 2}

(* the request whose completion is res' reaches the TOTP check with a code *)
(* of the secret it is checked against                                     *)
C18_Checked ==
    /\ res'.inp.code # Null
    /\ \/ /\ Completes("mfaConfirm")
          /\ db.mfaTempSecret = Some(res'.inp.code[1].secret)
       \/ /\ Completes("mfaVerify")
          /\ res'.inp.token = "mfa" /\ mfaTok = "live"
          /\ db.mfaEnabled /\ db.mfaSecret = Some(res'.inp.code[1].secret)
       \/ /\ Completes("mfaDisable")
          /\ bcryptCompare(res'.inp.pw, db.password)
          /\ db.mfaEnabled /\ db.mfaSecret = Some(res'.inp.code[1].secret)

C18_WindowStep ==
    C18_Checked
        => /\ res'.inp.code[1].offset \in C18_Accepted => res'.out.status = 200
           /\ res'.inp.code[1].offset >= 3 => res'.out.status \in {400, 401} /\ db' = db

C18_Window == [][C18_WindowStep]_vars

(* mfa/disable accepted a code generated 60 s ahead of the server's time   *)
C18_Witness ==
    /\ res.op = "mfaDisable"
    /\ res.inp.code = Some(Totp(1, 2))
    /\ res.out.status = 200
    /\ ~db.mfaEnabled

(***************************************************************************)
(* C19: change-password answers 401 when the current password is wrong,    *)
(* and 400 when the new password violates the policy, equals the current   *)
(* password or is in the password history; in each of these cases          *)
(* passwordHash, passwordHistory, passwordChangedAt and passwordExpiresAt  *)
(* stay as they were.  Only the 200 response changes them, and it returns  *)
(* the new passwordExpiresAt.                                              *)
(***************************************************************************)
C19_Unchanged ==
    /\ db'.password = db.password
    /\ db'.passwordHistory = db.passwordHistory
    /\ db'.passwordChangedAt = db.passwordChangedAt
    /\ db'.passwordExpiresAt = db.passwordExpiresAt

C19_ChangeStep ==
    (Completes("changePassword") /\ res'.inp.pw # <<>> /\ res'.inp.newPw # <<>>)
        => LET new == res'.inp.newPw
               out == res'.out
           IN  /\ ~bcryptCompare(res'.inp.pw, db.password)
                      => out.status = 401
               /\ (/\ bcryptCompare(res'.inp.pw, db.password)
                   /\ \/ ~validatePassword(new).valid
                      \/ bcryptHash(new) = db.password
                      \/ bcryptHash(new) \in Range(db.passwordHistory))
                      => out.status = 400
               /\ out.status # 200 => C19_Unchanged /\ db' = db
               /\ out.status = 200
                      => /\ "passwordExpiresAt" \in out.body
                         /\ db'.password = bcryptHash(new)
                         /\ db'.password # db.password
                         /\ db'.passwordHistory[1] = db.password
                         /\ db'.passwordChangedAt = now
                         /\ db'.passwordExpiresAt = Some(now + PASSWORD_EXPIRY_UNITS)

C21_Violated(p) ==
    {e \in {"TOO_SHORT"} : Len(p) < PASSWORD_MIN_LENGTH}
    \cup {e \in {"TOO_LONG"} : Len(p) > PASSWORD_MAX_LENGTH}
    \cup {e \in {"MISSING_UPPERCASE"} : \A i \in 1..Len(p) : p[i] \notin UpperCase}
    \cup {e \in {"MISSING_LOWERCASE"} : \A i \in 1..Len(p) : p[i] \notin LowerCase}
    \cup {e \in {"MISSING_NUMBER"} : \A i \in 1..Len(p) : p[i] \notin Digits}
    \cup {e \in {"MISSING_SPECIAL_CHAR"} : \A i \in 1..Len(p) : p[i] \notin Range(specialChars)}

C21_AllViolationsListed ==
    vres # Null
        => /\ Range(vres[1].errors) = C21_Violated(pwd)
           /\ Len(vres[1].errors) = Cardinality(C21_Violated(pwd))

(***************************************************************************)
(* C22: authentication fails closed.  A login or mfa/verify request in     *)
(* which a read or a write of the user store failed ends there, with an    *)
(* error response: it sets no session cookie, issues no MFA challenge      *)
(* token and leaves the store as it was.                                   *)
(***************************************************************************)
C22_FailedRequestsEnd ==
    \A r \in Requests :
        reqs[r].err => /\ reqs[r].pc = "done"
                       /\ reqs[r].out.status = 500
                       /\ ~reqs[r].out.cookie
                       /\ "mfaToken" \notin reqs[r].out.body

C22_ErrorStep ==
    \A r \in Requests :
        /\ (~reqs[r].err /\ reqs'[r].err) => db' = db /\ mfaTok' = mfaTok /\ res' = res
        /\ (reqs[r].err /\ ~reqs'[r].err)
               => /\ res'.out.status = 500
                  /\ ~res'.out.cookie
                  /\ mfaTok' = mfaTok
                  /\ db' = db

C22_FailClosed == []C22_FailedRequestsEnd /\ [][C22_ErrorStep]_vars

(* the save after a correct password threw, on an account without MFA,     *)
(* and the login was answered 500 without a cookie                         *)
C22_Witness ==
    /\ res.op = "login"
    /\ res.inp.pw = Pw(1)
    /\ res.out.status = 500
    /\ ~res.out.cookie
    /\ ~db.mfaEnabled
    /\ db.failedLoginAttempts = 1

(***************************************************************************)
(* C23: no operation sets the session cookie for an account whose          *)
(* mfaEnabled is true, except an mfa/verify that presents a live MFA       *)
(* challenge token and a valid TOTP or recovery code.                      *)
(***************************************************************************)
C23_SessionStep ==
    (res'.n # res.n /\ res'.out.cookie /\ db.mfaEnabled)
        => /\ res'.op = "mfaVerify"
           /\ res'.inp.token = "mfa"
           /\ mfaTok = "live"
           /\ \/ /\ res'.inp.code # Null
                 /\ totpVerify(db.mfaSecret, res'.inp.code[1], TOTP_WINDOW)
              \/ /\ res'.inp.code = Null
                 /\ res'.inp.recoveryCode # Null
                 /\ sha256(toUpperCase(res'.inp.recoveryCode[1])) \in Range(db.mfaRecoveryCodes)

C23_NoSessionWithoutMfa == [][C23_SessionStep]_vars

(***************************************************************************)
(* C24: between two resets of the failure counter at most maxAttempts (5)  *)
(* submitted passwords are compared with the stored hash, whatever the     *)
(* interleaving of the login requests.  With wrong passwords only and the  *)
(* clock standing still the counter is never reset, and the passwords      *)
(* compared so far are those of the failures registered and of the         *)
(* requests that have compared and not yet registered.                     *)
(***************************************************************************)
C24_Compared == fails + Cardinality({r \in Requests : reqs[r].pc = "mismatched"})

C24_AtMostFiveCompared == C24_Compared <= MAX_ATTEMPTS

(***************************************************************************)
(* C25: the failure counter and the lock are reset only by a fully         *)
(* successful authentication.  A login that ends with the MFA challenge    *)
(* (correct password, mfaEnabled) or that is rejected for an expired       *)
(* password leaves failedLoginAttempts and lockUntil as they were.         *)
(***************************************************************************)
C25_NoResetStep ==
    (/\ Completes("login")
     /\ \/ "mfaRequired" \in res'.out.body
        \/ "passwordExpired" \in res'.out.body)
        => /\ db'.failedLoginAttempts = db.failedLoginAttempts
           /\ db'.lockUntil = db.lockUntil

C25_ResetOnlyAfterFullLogin == [][C25_NoResetStep]_vars

(***************************************************************************)
(* C26: under any interleaving of mfa/setup, mfa/confirm and mfa/disable   *)
(* requests of one user the MFA status moves only along Disabled ->        *)
(* PendingSetup -> Enabled -> Disabled.  While MFA stays enabled no setup  *)
(* takes effect (no pending secret is stored) and no confirm replaces the  *)
(* active mfaSecret or its recovery codes.                                 *)
(***************************************************************************)
C26_Status(d) ==
    IF d.mfaEnabled THEN "Enabled"
    ELSE IF d.mfaTempSecret # Null THEN "PendingSetup"
    ELSE "Disabled"

C26_Moves ==
    {<<"Disabled", "PendingSetup">>, <<"PendingSetup", "PendingSetup">>,
     <<"PendingSetup", "Enabled">>, <<"Enabled", "Disabled">>}

C26_Fields(d) == <<d.mfaEnabled, d.mfaSecret, d.mfaTempSecret>>

C26_StatusStep ==
    C26_Fields(db') # C26_Fields(db)
        => /\ <<C26_Status(db), C26_Status(db')>> \in C26_Moves
           /\ ~(db.mfaEnabled /\ db'.mfaEnabled)

C26_StateMachine == [][C26_StatusStep]_vars

(***************************************************************************)
(* C27: in every stored user record mfaSecret is non-null if and only if   *)
(* mfaEnabled is true, after any sequence of mfa/setup, mfa/confirm,       *)
(* mfa/verify and mfa/disable operations on the account as registered.     *)
(***************************************************************************)
C27_SecretIffEnabled == (db.mfaSecret # Null) <=> db.mfaEnabled

(* MFA was enabled, used and disabled again: the secret is gone with it *)
C27_Witness ==
    /\ res.op = "mfaDisable"
    /\ res.out.status = 200
    /\ ~db.mfaEnabled
    /\ db.mfaSecret = Null
    /\ redeemed # {}

(***************************************************************************)
(* C28: no session cookie is issued for an account while its lockUntil is  *)
(* in the future: a response that sets the access-token cookie leaves a    *)
(* stored record that is not locked at that time, whether the response is  *)
(* a login's, an admin login's or an mfa/verify's whose MFA challenge      *)
(* token was issued before the lock was set.                               *)
(***************************************************************************)
C28_IssueStep ==
    (res'.n # res.n /\ res'.out.cookie)
        => ~(db'.lockUntil # Null /\ db'.lockUntil[1] > now')

C28_NoSessionWhileLocked == [][C28_IssueStep]_vars

(***************************************************************************)
(* C29: when the stored lockUntil is non-null and not in the future, the   *)
(* next login treats the account as unlocked and clears lockUntil and      *)
(* zeroes failedLoginAttempts: a login with a wrong password is answered   *)
(* 401 and leaves the stored counter at 1 and the account unlocked, one    *)
(* with the correct password leaves the counter at 0 and the account       *)
(* unlocked.                                                               *)
(***************************************************************************)
C29_LockExpired == db.lockUntil # Null /\ db.lockUntil[1] <= now

C29_ExpiredStep ==
    (C29_LockExpired /\ Completes("login") /\ res'.inp.email = KnownEmail)
        => /\ db'.lockUntil = Null
           /\ res'.out.status # 423
           /\ IF bcryptCompare(res'.inp.pw, db.password)
              THEN db'.failedLoginAttempts = 0
              ELSE db'.failedLoginAttempts = 1 /\ res'.out.status = 401

C29_ExpiredLockCleared == [][C29_ExpiredStep]_vars

(* a wrong password after the lock of five failures has run out *)
C29_Witness ==
    /\ res.op = "login"
    /\ res.out.status = 401
    /\ streak = StreakOff
    /\ now >= LOCK_UNITS
    /\ db.failedLoginAttempts = 1
    /\ db.lockUntil = Null

(***************************************************************************)
(* C30: once the account is locked (stored lockUntil in the future), no    *)
(* step of a failed login changes the stored lockUntil, whether the login  *)
(* is rejected at the lock check or registers its failure, and whether or  *)
(* not it passed the lock check before the lock was set: the lock ends at  *)
(* the time fixed when it was first set.                                   *)
(***************************************************************************)
C30_LockStep == StoredLocked => db'.lockUntil = db.lockUntil

C30_LockUntilFixed == [][C30_LockStep]_vars

(***************************************************************************)
(* C31: every request rejected as a security-relevant denial (a login on a *)
(* locked account, an invalid or expired MFA token, an invalid MFA code at *)
(* mfa/verify or mfa/disable) has exactly one audit entry recorded by the  *)
(* time its response is ready to be sent.                                  *)
(***************************************************************************)
C31_Denial(m) ==
    /\ m.pc = "done"
    /\ ~m.err
    /\ \/ m.op = "login" /\ m.out.status = 423
       \/ /\ m.op \in {"mfaVerify", "mfaDisable"}
          /\ m.out.status = 401
          /\ m.out.body \cap {"message:invalid", "message:badtoken", "message:tokenexpired"} # {}

C31_OneAuditEntry == \A r \in Requests : C31_Denial(reqs[r]) => Len(reqs[r].log) = 1

(***************************************************************************)
(* C32: every login request that reaches its response has emitted exactly  *)
(* one audit event, whichever branch it took (unknown email, locked        *)
(* account, wrong password, wrong password that triggers the lock, expired *)
(* password, MFA required, direct success).                                *)
(***************************************************************************)
C32_OneEventPerLogin ==
    \A r \in Requests :
        (reqs[r].op = "login" /\ reqs[r].pc = "done" /\ ~reqs[r].err)
            => Len(reqs[r].log) = 1

(***************************************************************************)
(* C33: the audit logger never throws to its caller: when the audit store  *)
(* write fails during a login, every step of the login gives the same      *)
(* stored user record, the same position and the same response (status,   *)
(* cookie, body) as it gives when the write succeeds, and the request does *)
(* not end in its catch block.                                             *)
(***************************************************************************)
C33_AuditFails == reqs[1].op = "login" /\ reqs[1].pc \notin {"idle", "done"} /\ ~reqs[1].auditOk

C33_LoginStep ==
    (C33_AuditFails /\ reqs'[1].pc # reqs[1].pc)
        => LET w == LoginStep(db, [reqs[1] EXCEPT !.auditOk = TRUE], now)
           IN  /\ db' = w.db
               /\ reqs'[1].pc = w.m.pc
               /\ reqs'[1].out = w.m.out
               /\ reqs'[1].doc = w.m.doc
               /\ ~reqs'[1].err

C33_AuditFailureSwallowed == [][C33_LoginStep]_vars

(* a wrong password registered and answered 401 although the audit write   *)
(* for it failed                                                           *)
C33_Witness ==
    /\ reqs[1].op = "login"
    /\ reqs[1].pc = "done"
    /\ ~reqs[1].auditOk
    /\ reqs[1].log = <<>>
    /\ reqs[1].out.status = 401
    /\ db.failedLoginAttempts > 0

(***************************************************************************)
(* C34: no request to the public signup, whatever its body, results in a   *)
(* stored account whose role is admin: an account with role admin is       *)
(* created only by admin registration with a valid admin secret key.       *)
(***************************************************************************)
C34_SignupStep ==
    Completes("register")
        => \A i \in DOMAIN users' \ DOMAIN users : users'[i].role # "admin"

C34_NoAdminBySignup == [][C34_SignupStep]_vars

(***************************************************************************)
(* C35: password expiry is recoverable: from a state where the password    *)
(* has expired and the owner holds no access token, the owner's operations *)
(* lead to a successful change of password and then to a login that issues *)
(* a session.                                                              *)
(***************************************************************************)
C35_ExpiredNoToken == StoredExpired /\ jar = Null

C35_SessionAfterChange ==
    /\ res.op = "login"
    /\ res.out.cookie
    /\ db.password # bcryptHash(Pw(1))

C35_Recoverable == C35_ExpiredNoToken ~> C35_SessionAfterChange

(***************************************************************************)
(* C36: in every stored user record lockUntil is non-null only if          *)
(* failedLoginAttempts >= 5, under any interleaving of concurrent login    *)
(* requests for the account.                                               *)
(***************************************************************************)
C36_LockImpliesThreshold == db.lockUntil # Null => db.failedLoginAttempts >= MAX_ATTEMPTS

(***************************************************************************)
(* C37: after any sequence of successful password changes passwordHistory  *)
(* holds at most PASSWORD_HISTORY_COUNT hashes, most recent first: a       *)
(* successful change puts the hash that was current before it at the head, *)
(* keeps the earlier entries in their order behind it and drops what lies  *)
(* beyond the cap; a refused change leaves the history as it was.          *)
(***************************************************************************)
C37_AtMostN == Len(db.passwordHistory) <= PASSWORD_HISTORY_COUNT

C37_PrependEvict ==
    Completes("changePassword")
        => IF res'.out.status = 200
           THEN /\ Len(db'.passwordHistory) =
                       IF Len(db.passwordHistory) < PASSWORD_HISTORY_COUNT
                       THEN Len(db.passwordHistory) + 1 ELSE PASSWORD_HISTORY_COUNT
                /\ db'.passwordHistory[1] = db.password
                /\ \A i \in 2..Len(db'.passwordHistory) :
                       db'.passwordHistory[i] = db.passwordHistory[i - 1]
                /\ db'.password = bcryptHash(res'.inp.newPw)
           ELSE db'.passwordHistory = db.passwordHistory

C37_RecentFirst == []C37_AtMostN /\ [][C37_PrependEvict]_vars

(* a successful change on a full history: the outgoing hash is at the head *)
(* and the first password of the account has been evicted                  *)
C37_Witness ==
    /\ res.op = "changePassword"
    /\ res.out.status = 200
    /\ Len(db.passwordHistory) = PASSWORD_HISTORY_COUNT
    /\ db.passwordHistory[1] = bcryptHash(res.inp.pw)
    /\ bcryptHash(Pw(1)) \notin Range(db.passwordHistory)
    /\ db.password # bcryptHash(Pw(1))

(***************************************************************************)
(* C38: isLocked, registerFailedLogin and resetLoginAttempts are           *)
(* idempotent at one logical time: on every stored user record, calling    *)
(* the operation twice in a row at the time now leaves the same            *)
(* failedLoginAttempts and lockUntil as calling it once.                   *)
(***************************************************************************)
C38_SameCounters(a, b) ==
    a.failedLoginAttempts = b.failedLoginAttempts /\ a.lockUntil = b.lockUntil

C38_IsLockedIdempotent ==
    LET once == isLockedEffect(Load(db), now)
    IN  /\ C38_SameCounters(isLockedEffect(once, now), once)
        /\ isLocked(once, now) = isLocked(Load(db), now)

C38_ResetIdempotent ==
    LET once == resetLoginAttempts(Load(db))
    IN  C38_SameCounters(resetLoginAttempts(once), once)

C38_RegisterIdempotent ==
    LET once == registerFailedLogin(Load(db), now, MAX_ATTEMPTS, LOCK_UNITS)
    IN  C38_SameCounters(registerFailedLogin(once, now, MAX_ATTEMPTS, LOCK_UNITS), once)

C38_Idempotent ==
    C38_IsLockedIdempotent /\ C38_ResetIdempotent /\ C38_RegisterIdempotent

====
